---- MODULE Spec2Model ----
(***************************************************************************)
(* The traversal and checklist-accumulation engine of the Research         *)
(* Compliance Navigator (src/app.js, version 2.0, lines 1-1070).           *)
(*                                                                         *)
(* The decision tree is a document the program fetches (decisionTree.json);*)
(* it is an input.  The model draws it from a small set of trees, each     *)
(* built around the identifiers the code hard-codes.  The page starts with *)
(* no tree; the fetch started by init() completes later, or never.         *)
(*                                                                         *)
(* Modelling conventions:                                                  *)
(*  - a template / checklist entry keeps the fields the engine reads:      *)
(*    text, order (optional), questionId; display-only fields are dropped. *)
(*  - JavaScript's undefined / string / array answers are the records      *)
(*    NoAnswer, Single(v), Multi(seq).                                     *)
(*  - Array.prototype.sort is stable (ECMAScript 2019).                    *)
(*  - the handlers are the interface the host calls (answer, advance,       *)
(*    retreat): each is enabled while its screen is displayed; whether the *)
(*    Next button is shown or disabled is display logic and is not a guard.*)
(*  - a history frame holds the answer as it was when the frame was pushed; *)
(*    the code stores a reference to the answer array and never reads it.  *)
(*  - the saved item holds what JSON.stringify writes: an undefined element*)
(*    of an array is written as null.                                      *)
(*  - lastOp is a history variable: the handler that last changed the      *)
(*    session.                                                             *)
(***************************************************************************)
EXTENDS Integers, Sequences, FiniteSets, TLC

VARIABLES
    summaryItems,       \* the items renderSummary() collected for the summary screen
    reloads,            \* times the page was opened again with the saved item kept
    treeFile,           \* index of the document served as decisionTree.json
    decisionTree,       \* this.decisionTree: NoTree, or the index of the loaded document
    currentQuestionId,  \* this.currentQuestionId
    answers,            \* this.answers
    checklist,          \* this.checklist
    questionHistory,    \* this.questionHistory
    pendingRoutes,      \* this.pendingRoutes
    screen,             \* which of welcomeScreen / questionScreen / summaryScreen is displayed
    localStorage,       \* the item 'ouhsc_research_navigator_progress'
    lastOp              \* history variable: the last handler that ran

vars == <<summaryItems, reloads, treeFile, decisionTree, currentQuestionId, answers, checklist, questionHistory,
          pendingRoutes, screen, localStorage, lastOp>>

----------------------------------------------------------------------------
(* Values *)

Null == "null"
Undefined == "undefined"

NoAnswer == [kind |-> "undefined"]
Single(v) == [kind |-> "string", v |-> v]
Multi(s) == [kind |-> "array", v |-> s]

\* a checklist-item template without / with a numeric order
T(text) == [text |-> text, hasOrder |-> FALSE, order |-> 0]
TO(text, n) == [text |-> text, hasOrder |-> TRUE, order |-> n]

NoRouting == [kind |-> "absent"]
RouteTo(id) == [kind |-> "string", next |-> id]
RouteMap(m) == [kind |-> "map", map |-> m]

NoItems == [kind |-> "absent"]
ItemMap(m) == [kind |-> "map", map |-> m]
ItemArray(s) == [kind |-> "array", items |-> s]

Question(id, type, options, routing, items) ==
    [id |-> id, type |-> type, options |-> options, routing |-> routing,
     checklistItems |-> items]

\* a question that also carries fixedChecklistItems
WithFixedItems(question, fixed) == [fixedChecklistItems |-> fixed] @@ question

\* the identifiers the code hard-codes
FanOutId == "q3_study_type"
endpointIds == <<"q_qi", "q_contact_irb">>
allSubQuestionIds == <<"q4_retro_phi", "q5_intervention", "q6_observational", "q6_biospecimen">>
\* variant: one identifier is missing from the drain's list
subQuestionIds_Short == <<"q4_retro_phi", "q6_observational", "q6_biospecimen">>
subQuestionIds == <<"q4_retro_phi", "q5_intervention", "q6_observational", "q6_biospecimen">>
MissingOrder == 999

\* the longest history explored (a tree with a cycle has no longest path)
MaxHistory == 6

Range(s) == {s[i] : i \in DOMAIN s}

----------------------------------------------------------------------------
(* Decision trees: the inputs *)

YesNo == <<"Yes", "No">>

\* Tree 1: a conditional branch (q1 -> q2 or straight on), then the study-type
\* fan-out to two sub-questions whose own routing names the convergence
\* question.  Two options of the fan-out question carry a template with the
\* same text.
Tree1 == <<
    Question("q1_human", "boolean", YesNo,
             RouteMap("Yes" :> "q2_training" @@ "No" :> "q3_study_type"),
             ItemMap("Yes" :> <<TO("Submit IRB application", 1)>>
                     @@ "No" :> <<T("Request NHSR determination")>>)),
    Question("q2_training", "boolean", YesNo,
             RouteTo("q3_study_type"),
             ItemMap("No" :> <<T("Complete CITI training")>>)),
    Question("q3_study_type", "checkbox", <<"A", "B">>,
             RouteMap("A" :> "q4_retro_phi" @@ "B" :> "q5_intervention"),
             ItemMap("A" :> <<TO("Register the study", 2)>>
                     @@ "B" :> <<TO("Register the study", 2)>>)),
    Question("q4_retro_phi", "boolean", YesNo,
             RouteTo("q7_funding"),
             ItemMap("Yes" :> <<TO("HIPAA waiver", 3)>>)),
    Question("q5_intervention", "boolean", YesNo,
             RouteTo("q7_funding"),
             ItemMap("Yes" :> <<TO("Register on ClinicalTrials.gov", 0)>>)),
    Question("q7_funding", "info", <<>>, NoRouting, NoItems)
>>

\* Tree 2: the fan-out question first, with three options routed to three
\* sub-questions.
Tree2 == <<
    Question("q3_study_type", "checkbox", <<"A", "B", "C">>,
             RouteMap("A" :> "q4_retro_phi" @@ "B" :> "q5_intervention"
                      @@ "C" :> "q6_observational"),
             NoItems),
    Question("q4_retro_phi", "boolean", YesNo,
             RouteTo("q7_funding"),
             ItemMap("Yes" :> <<TO("HIPAA waiver", 3)>>)),
    Question("q5_intervention", "boolean", YesNo,
             RouteTo("q7_funding"),
             ItemMap("Yes" :> <<T("Register on ClinicalTrials.gov")>>)),
    Question("q6_observational", "boolean", YesNo,
             RouteMap("Yes" :> "q7_funding"),
             ItemMap("No" :> <<TO("Data use agreement", 2)>>)),
    Question("q7_funding", "info", <<>>, NoRouting, NoItems)
>>

\* Tree 3: the fan-out question routes one option to a question that is not
\* one of the hard-coded sub-question identifiers; the sub-question shows the
\* Finish button.
Tree3 == <<
    Question("q3_study_type", "checkbox", <<"A", "B">>,
             RouteMap("A" :> "q4b_registry" @@ "B" :> "q5_intervention"),
             NoItems),
    Question("q4b_registry", "boolean", YesNo,
             RouteTo("q7_funding"),
             NoItems),
    Question("q5_intervention", "boolean", YesNo,
             RouteTo("summary"),
             ItemMap("Yes" :> <<T("Register on ClinicalTrials.gov")>>)),
    Question("q7_funding", "info", <<>>, NoRouting, NoItems)
>>

\* Tree 4: the fan-out question routes two options to the endpoint pages,
\* which carry their templates as a list.  The two endpoints share a template
\* text, and the sub-question has a template with the text of an endpoint's.
Tree4 == <<
    Question("q3_study_type", "checkbox", <<"A", "E", "F">>,
             RouteMap("A" :> "q4_retro_phi" @@ "E" :> "q_qi" @@ "F" :> "q_contact_irb"),
             NoItems),
    Question("q4_retro_phi", "boolean", YesNo,
             NoRouting,
             ItemMap("Yes" :> <<T("Complete the QI checklist")>>)),
    Question("q_qi", "info", <<>>, NoRouting,
             ItemArray(<<TO("Complete the QI checklist", 1), T("Contact the IRB office")>>)),
    Question("q_contact_irb", "info", <<>>, NoRouting,
             ItemArray(<<T("Contact the IRB office")>>))
>>

\* Tree 5: a multi-select question that is not the fan-out question, with one
\* option missing from its routing map, then the OnCore question with its
\* follow-up and the final question.
Tree5 == <<
    Question("q8_sites", "checkbox", <<"X", "Y", "Z">>,
             RouteMap("X" :> "q9_oncore" @@ "Y" :> "q10_final"),
             NoItems),
    Question("q9_oncore", "checkbox", <<"None of the above", "OnCore">>,
             RouteMap("None of the above" :> "q9b_oncore_setup" @@ "OnCore" :> "q9b_oncore_setup"),
             NoItems),
    Question("q9b_oncore_setup", "boolean", YesNo,
             RouteMap("Yes" :> "q10_final"),
             NoItems),
    Question("q10_final", "info", <<>>, NoRouting, NoItems)
>>

\* Tree 6: one option of the fan-out question leads to a page that routes back
\* to the fan-out question, so that it is reached again with routes pending.
Tree6 == <<
    Question("q3_study_type", "checkbox", <<"A", "B">>,
             RouteMap("A" :> "q8_more" @@ "B" :> "q5_intervention"),
             NoItems),
    Question("q8_more", "info", <<>>, RouteTo("q3_study_type"), NoItems),
    Question("q5_intervention", "boolean", YesNo,
             NoRouting,
             ItemMap("Yes" :> <<T("Register on ClinicalTrials.gov")>>))
>>

\* Tree 7: routing entries that name no question of the tree: a fan-out
\* target, an entry of a routing map and a routing string.  Two options of the
\* fan-out question have the same target.
Tree7 == <<
    Question("q3_study_type", "checkbox", <<"A", "B", "C">>,
             RouteMap("A" :> "q4_retro_phi" @@ "B" :> "q6_biospecimen" @@ "C" :> "q4_retro_phi"),
             NoItems),
    Question("q4_retro_phi", "boolean", YesNo,
             RouteMap("Yes" :> "q12_missing" @@ "No" :> "q7_funding"),
             ItemMap("Yes" :> <<TO("HIPAA waiver", 3)>>)),
    Question("q7_funding", "info", <<>>, RouteTo("q13_missing"), NoItems)
>>

\* Tree 8: an endpoint page that carries its templates in a map keyed by
\* option label, as the other questions do, declared between two options
\* that lead to sub-questions.
Tree8 == <<
    Question("q3_study_type", "checkbox", <<"A", "E", "B">>,
             RouteMap("A" :> "q4_retro_phi" @@ "E" :> "q_qi" @@ "B" :> "q5_intervention"),
             NoItems),
    Question("q4_retro_phi", "boolean", YesNo, NoRouting, NoItems),
    Question("q5_intervention", "boolean", YesNo, NoRouting, NoItems),
    Question("q_qi", "info", <<>>, NoRouting,
             ItemMap("E" :> <<T("Complete the QI checklist")>>))
>>

\* Tree 9: one option of the fan-out question has no entry in the routing map.
Tree9 == <<
    Question("q3_study_type", "checkbox", <<"A", "D">>,
             RouteMap("A" :> "q4_retro_phi"),
             NoItems),
    Question("q4_retro_phi", "boolean", YesNo, NoRouting, NoItems)
>>

\* Tree 10: a document without questions.
Tree10 == <<>>

\* Tree 11: the final question routes to the OnCore question, whose own
\* routing leads to the summary, to a page with the Finish button and to a
\* question that is missing.  The final question carries fixed items: one
\* with the text of a template of the OnCore question, and two with one text.
Tree11 == <<
    Question("q9_oncore", "checkbox", <<"None of the above", "OnCore", "Other">>,
             RouteMap("None of the above" :> "summary" @@ "OnCore" :> "q12_wrapup"
                      @@ "Other" :> "q11_missing"),
             ItemMap("OnCore" :> <<T("Register the study in OnCore")>>)),
    WithFixedItems(Question("q10_final", "info", <<>>, RouteTo("q9_oncore"), NoItems),
                   <<T("Register the study in OnCore"), T("Submit to the IRB"),
                     TO("Submit to the IRB", 1)>>),
    Question("q12_wrapup", "info", <<>>, RouteTo("summary"), NoItems)
>>

\* Tree 12: two questions on one path carry templates of one explicit order,
\* the first of them also a template of a greater order.
Tree12 == <<
    Question("q1_human", "boolean", YesNo,
             RouteTo("q2_training"),
             ItemMap("Yes" :> <<TO("Submit IRB application", 1), TO("HIPAA waiver", 3)>>)),
    Question("q2_training", "boolean", YesNo,
             RouteTo("summary"),
             ItemMap("Yes" :> <<TO("Complete CITI training", 1)>>
                     @@ "No" :> <<T("Request NHSR determination")>>))
>>

\* Tree 13: none of the hard-coded identifiers; a checkbox question routes two
\* of its three options, one of them to a sentinel, and a boolean question
\* routes one of its two.
Tree13 == <<
    Question("q8_sites", "checkbox", <<"A", "B", "C">>,
             RouteMap("A" :> "q7_funding" @@ "B" :> "end_determination"),
             ItemMap("A" :> <<TO("Data use agreement", 2)>>
                     @@ "C" :> <<T("Contact the IRB office")>>)),
    Question("q7_funding", "boolean", YesNo,
             RouteMap("Yes" :> "q8_more"),
             ItemMap("Yes" :> <<TO("Submit IRB application", 1)>>)),
    Question("q8_more", "info", <<>>, NoRouting, NoItems)
>>

Trees == <<Tree1, Tree2, Tree3, Tree4, Tree5, Tree6, Tree7, Tree8, Tree9, Tree10, Tree11,
           Tree12, Tree13>>

\* this.decisionTree = null
NoTree == 0

\* this.decisionTree.questions
Questions == IF decisionTree = NoTree THEN <<>> ELSE Trees[decisionTree]

\* a question id that no tree has
RemovedId == "q_removed"

QuestionIds ==
    UNION {{Trees[t][i].id : i \in DOMAIN Trees[t]} : t \in DOMAIN Trees}
    \cup Range(allSubQuestionIds) \cup Range(endpointIds) \cup {RemovedId}

----------------------------------------------------------------------------
(* Helpers of the engine *)

\* what find() returns when no question has the id
NoQuestion == Question(Null, "none", <<>>, NoRouting, NoItems)

\* findQuestionById: the first question with the id, or NoQuestion
FindQuestionById(id) ==
    IF \E i \in DOMAIN Questions : Questions[i].id = id
    THEN Questions[CHOOSE i \in DOMAIN Questions :
                     /\ Questions[i].id = id
                     /\ \A j \in DOMAIN Questions : Questions[j].id = id => i <= j]
    ELSE NoQuestion

Includes(s, x) == \E i \in DOMAIN s : s[i] = x

\* array.filter(o => o !== x)
Without(s, x) == SelectSeq(s, LAMBDA o : o # x)

\* (item.order || 999)
OrderKey(item) == IF item.hasOrder /\ item.order # 0 THEN item.order ELSE MissingOrder

\* variant: an unstable sort, x goes ahead of the entries whose key equals its own
RECURSIVE InsertByOrder_BeforeEqual(_, _)
InsertByOrder_BeforeEqual(sorted, x) ==
    IF sorted = <<>> THEN <<x>>
    ELSE IF OrderKey(sorted[Len(sorted)]) < OrderKey(x) THEN Append(sorted, x)
    ELSE Append(InsertByOrder_BeforeEqual(SubSeq(sorted, 1, Len(sorted) - 1), x),
                sorted[Len(sorted)])

\* one step of the stable sort: x goes behind every entry whose key is <= its own
RECURSIVE InsertByOrder(_, _)
InsertByOrder(sorted, x) ==
    IF sorted = <<>> THEN <<x>>
    ELSE IF OrderKey(sorted[Len(sorted)]) <= OrderKey(x) THEN Append(sorted, x)
    ELSE Append(InsertByOrder(SubSeq(sorted, 1, Len(sorted) - 1), x), sorted[Len(sorted)])

\* this.checklist.sort((a, b) => (a.order || 999) - (b.order || 999))
RECURSIVE SortByOrder(_)
SortByOrder(cl) ==
    IF cl = <<>> THEN <<>>
    ELSE InsertByOrder(SortByOrder(SubSeq(cl, 1, Len(cl) - 1)), cl[Len(cl)])

\* {...item, questionId: question.id}
Entry(item, qid) ==
    [text |-> item.text, hasOrder |-> item.hasOrder, order |-> item.order, questionId |-> qid]

Tagged(items, qid) == [i \in DOMAIN items |-> Entry(items[i], qid)]

\* question.checklistItems[label], as the list it contributes
TemplatesUnder(question, label) ==
    IF question.checklistItems.kind = "map" /\ label \in DOMAIN question.checklistItems.map
    THEN question.checklistItems.map[label]
    ELSE <<>>

\* answer.forEach(selectedOption => ...forEach(push))
RECURSIVE TemplatesOfAll(_, _)
TemplatesOfAll(question, labels) ==
    IF labels = <<>> THEN <<>>
    ELSE TemplatesUnder(question, Head(labels)) \o TemplatesOfAll(question, Tail(labels))

TemplatesOf(question, answer) ==
    IF question.checklistItems.kind = "absent" \/ answer.kind = "undefined" THEN <<>>
    ELSE IF answer.kind = "array" THEN TemplatesOfAll(question, answer.v)
    ELSE TemplatesUnder(question, answer.v)

\* variant: the question's earlier entries are kept
RemoveQuestion_Keep(cl, qid) == cl

\* checklist.filter(item => item.questionId !== question.id)
RemoveQuestion(cl, qid) == SelectSeq(cl, LAMBDA item : item.questionId # qid)

\* addToChecklist(question, answer)
AddToChecklist(cl, question, answer) ==
    SortByOrder(RemoveQuestion(cl, question.id) \o Tagged(TemplatesOf(question, answer), question.id))

\* JSON.stringify of an array of ids: undefined is written as null
JsonArray(s) == [i \in DOMAIN s |-> IF s[i] = Undefined THEN Null ELSE s[i]]

\* JSON.stringify of the frames
JsonFrames(h) == [i \in DOMAIN h |-> [h[i] EXCEPT !.pendingRoutes = JsonArray(@)]]

\* variant: the queue is left out of the saved data
Snapshot_NoQueue(a, cl, h, cur, p) ==
    [answers |-> a, checklist |-> cl, questionHistory |-> JsonFrames(h),
     currentQuestionId |-> cur, pendingRoutes |-> <<>>]

\* the item saveProgress() writes (the timestamp is never read back)
Snapshot(a, cl, h, cur, p) ==
    [answers |-> a, checklist |-> cl, questionHistory |-> JsonFrames(h),
     currentQuestionId |-> cur, pendingRoutes |-> JsonArray(p)]

\* getItem() returns null
NoSaved == [absent |-> TRUE]

\* an item that JSON.parse rejects
Unparsable == [unparsable |-> TRUE]

\* the record kept in lastOp: the handler, the question it ran on, its
\* arguments, whether it repeats the call before it, the answer the question
\* had before, and the questions whose answers it cleared
Op(name, q, opt, checked, prev, cleared) ==
    [op |-> name, q |-> q, opt |-> opt, checked |-> checked,
     again |-> (lastOp.op = name /\ lastOp.q = q /\ lastOp.opt = opt /\ lastOp.checked = checked),
     prev |-> prev, cleared |-> cleared]

InitOp ==
    [op |-> "init", q |-> Null, opt |-> Null, checked |-> FALSE, again |-> FALSE,
     prev |-> NoAnswer, cleared |-> {}]

----------------------------------------------------------------------------
(* The session *)

\* constructor(); init() has wired the buttons and started the fetch
Init ==
    /\ summaryItems = <<>>
    /\ reloads = 0
    /\ treeFile \in DOMAIN Trees
    /\ decisionTree = NoTree
    /\ currentQuestionId = Null
    /\ answers = [q \in QuestionIds |-> NoAnswer]
    /\ checklist = <<>>
    /\ questionHistory = <<>>
    /\ pendingRoutes = <<>>
    /\ screen = "welcome"
    /\ localStorage = NoSaved
    /\ lastOp = InitOp

\* loadDecisionTree() completes: this.decisionTree = await response.json()
LoadDecisionTree ==
    /\ decisionTree = NoTree
    /\ decisionTree' = treeFile
    /\ UNCHANGED <<summaryItems, reloads, treeFile, currentQuestionId, answers, checklist, questionHistory,
                   pendingRoutes, screen, localStorage, lastOp>>

\* the test startNewAssessment() makes: a tree with at least one question
TreeLoaded == decisionTree # NoTree /\ Len(Questions) > 0

\* variant: the question screen is shown before the tree is tested
StartResult_ScreenFirst(cur, scr) ==
    IF TreeLoaded
    THEN [currentQuestionId |-> Questions[1].id, screen |-> "question"]
    ELSE [currentQuestionId |-> cur, screen |-> "question"]

\* what startNewAssessment() leaves as the current question and the screen,
\* after it has emptied the session
StartResult(cur, scr) ==
    IF TreeLoaded
    THEN [currentQuestionId |-> Questions[1].id, screen |-> "question"]
    ELSE [currentQuestionId |-> cur, screen |-> scr]

\* startNewAssessment(), on the welcome screen's button
StartNewAssessment ==
    /\ screen = "welcome"
    /\ answers' = [q \in QuestionIds |-> NoAnswer]
    /\ checklist' = <<>>
    /\ questionHistory' = <<>>
    /\ pendingRoutes' = <<>>
    /\ currentQuestionId' = StartResult(currentQuestionId, screen).currentQuestionId
    /\ screen' = StartResult(currentQuestionId, screen).screen
    /\ lastOp' = Op("startNewAssessment", Null, Null, FALSE, NoAnswer, {})
    /\ UNCHANGED <<summaryItems, reloads, treeFile, decisionTree, localStorage>>

\* an item saved under an earlier document: an answer, a frame and a queue,
\* and a current question that no tree has
ForeignItem ==
    Snapshot([q \in QuestionIds |-> IF q = FanOutId THEN Multi(<<"A">>) ELSE NoAnswer],
             <<>>,
             <<[questionId |-> FanOutId, answer |-> Multi(<<"A">>), pendingRoutes |-> <<>>]>>,
             RemovedId,
             <<"q5_intervention">>)

\* the saved item is damaged, or names a question the tree no longer has,
\* when the page is opened
StoredItemDamaged ==
    /\ screen = "welcome"
    /\ decisionTree = NoTree
    /\ \/ localStorage' = Unparsable
       \/ localStorage' = ForeignItem
       \/ /\ localStorage \notin {NoSaved, Unparsable}
          /\ localStorage' = [localStorage EXCEPT !.currentQuestionId = RemovedId]
    /\ localStorage' # localStorage
    /\ UNCHANGED <<summaryItems, reloads, treeFile, decisionTree, currentQuestionId, answers, checklist,
                   questionHistory, pendingRoutes, screen, lastOp>>

\* variant: the saved question is taken to be in the tree
Displayable_Always(item) == TRUE

\* displayQuestion(question) does not throw: the saved question is in the tree
Displayable(item) == FindQuestionById(item.currentQuestionId) # NoQuestion

\* data.pendingRoutes || []
LoadedQueue(data) == data.pendingRoutes

\* loadProgress(), on the welcome screen's button, which checkSavedProgress()
\* shows once the tree is loaded and an item is saved
LoadProgress ==
    /\ screen = "welcome"
    /\ decisionTree # NoTree
    /\ localStorage # NoSaved
    /\ IF localStorage = Unparsable
       THEN \* JSON.parse throws: catch, startNewAssessment()
            /\ answers' = [q \in QuestionIds |-> NoAnswer]
            /\ checklist' = <<>>
            /\ questionHistory' = <<>>
            /\ pendingRoutes' = <<>>
            /\ currentQuestionId' = StartResult(currentQuestionId, screen).currentQuestionId
            /\ screen' = StartResult(currentQuestionId, screen).screen
       ELSE IF ~Displayable(localStorage)
       THEN \* displayQuestion(undefined) throws: catch, startNewAssessment()
            /\ answers' = [q \in QuestionIds |-> NoAnswer]
            /\ checklist' = <<>>
            /\ questionHistory' = <<>>
            /\ pendingRoutes' = <<>>
            /\ currentQuestionId'
                 = StartResult(localStorage.currentQuestionId, "question").currentQuestionId
            /\ screen' = StartResult(localStorage.currentQuestionId, "question").screen
       ELSE /\ answers' = localStorage.answers
            /\ checklist' = localStorage.checklist
            /\ questionHistory' = localStorage.questionHistory
            /\ currentQuestionId' = localStorage.currentQuestionId
            /\ pendingRoutes' = LoadedQueue(localStorage)
            /\ screen' = "question"
    /\ lastOp' = Op("loadProgress", Null, Null, FALSE, NoAnswer, {})
    /\ UNCHANGED <<summaryItems, reloads, treeFile, decisionTree, localStorage>>

\* saveProgress(), the Save button of the header
SaveProgress ==
    /\ screen # "welcome"
    /\ localStorage' = Snapshot(answers, checklist, questionHistory, currentQuestionId,
                                pendingRoutes)
    /\ UNCHANGED <<summaryItems, reloads, treeFile, decisionTree, currentQuestionId, answers, checklist,
                   questionHistory, pendingRoutes, screen, lastOp>>

CurrentQuestion == FindQuestionById(currentQuestionId)

\* selectOption(questionId, option, question), from a boolean / single_choice button
SelectOption(option) ==
    /\ screen = "question"
    /\ CurrentQuestion.type \in {"boolean", "single_choice"}
    /\ Includes(CurrentQuestion.options, option)
    /\ LET a == [answers EXCEPT ![currentQuestionId] = Single(option)]
           cl == AddToChecklist(checklist, CurrentQuestion, Single(option))
       IN /\ answers' = a
          /\ checklist' = cl
          /\ localStorage' = Snapshot(a, cl, questionHistory, currentQuestionId, pendingRoutes)
    /\ lastOp' = Op("selectOption", currentQuestionId, option, TRUE, answers[currentQuestionId], {})
    /\ UNCHANGED <<summaryItems, reloads, treeFile, decisionTree, currentQuestionId, questionHistory, pendingRoutes, screen>>

\* variant: a checked option is pushed without the includes() test
SelectedAfter_NoGuard(answer, option, checked) ==
    LET current == IF answer.kind = "undefined" THEN <<>> ELSE answer.v
    IN IF checked THEN Append(current, option) ELSE Without(current, option)

\* the selection selectCheckboxOption(questionId, option, checked, question) stores
SelectedAfter(answer, option, checked) ==
    LET current == IF answer.kind = "undefined" THEN <<>> ELSE answer.v
    IN IF checked
       THEN (IF Includes(current, option) THEN current ELSE Append(current, option))
       ELSE Without(current, option)

\* selectCheckboxOption(questionId, option, checked, question), from a checkbox
SelectCheckboxOption(option, checked) ==
    /\ screen = "question"
    /\ CurrentQuestion.type = "checkbox"
    /\ Includes(CurrentQuestion.options, option)
    /\ LET sel == Multi(SelectedAfter(answers[currentQuestionId], option, checked))
           a == [answers EXCEPT ![currentQuestionId] = sel]
           cl == AddToChecklist(checklist, CurrentQuestion, sel)
       IN /\ answers' = a
          /\ checklist' = cl
          /\ localStorage' = Snapshot(a, cl, questionHistory, currentQuestionId, pendingRoutes)
    /\ lastOp' = Op("selectCheckboxOption", currentQuestionId, option, checked,
                   answers[currentQuestionId], {})
    /\ UNCHANGED <<summaryItems, reloads, treeFile, decisionTree, currentQuestionId, questionHistory, pendingRoutes, screen>>

----------------------------------------------------------------------------
(* The route resolver *)

\* routeMap[opt]
RouteOf(question, label) ==
    IF question.routing.kind = "map" /\ label \in DOMAIN question.routing.map
    THEN question.routing.map[label]
    ELSE Undefined

\* this.answers[question.id] || []   (the fan-out question is a checkbox)
SelectedOf(answer) == IF answer.kind = "array" THEN answer.v ELSE <<>>

\* items.forEach(item => { if (!checklist.some(ci => ci.text === item.text)) push })
RECURSIVE InjectItems(_, _, _)
InjectItems(cl, items, qid) ==
    IF items = <<>> THEN cl
    ELSE InjectItems(
            IF \E i \in DOMAIN cl : cl[i].text = Head(items).text
            THEN cl ELSE Append(cl, Entry(Head(items), qid)),
            Tail(items), qid)

\* variant: no endpoint contributes anything
EndpointItems_None(endpointQ) == <<>>

\* the endpoint's templates that are injected: only an array of templates counts
EndpointItems(endpointQ) ==
    IF endpointQ # NoQuestion /\ endpointQ.checklistItems.kind = "array"
    THEN endpointQ.checklistItems.items
    ELSE <<>>

\* variant: no target is taken for an endpoint
IsEndpoint_Never(routeId) == FALSE

\* endpointIds.includes(routeId)
IsEndpoint(routeId) == Includes(endpointIds, routeId)

\* variant: the scan walks the selected labels in the order they were checked
RECURSIVE FanOutScan_ClickOrder(_, _, _, _, _)
FanOutScan_ClickOrder(question, selected, i, routes, cl) ==
    IF i > Len(selected) THEN [routes |-> routes, checklist |-> cl]
    ELSE LET routeId == RouteOf(question, selected[i])
         IN IF IsEndpoint(routeId)
            THEN FanOutScan_ClickOrder(question, selected, i + 1, routes,
                                       InjectItems(cl, EndpointItems(FindQuestionById(routeId)),
                                                   routeId))
            ELSE IF ~Includes(routes, routeId)
            THEN FanOutScan_ClickOrder(question, selected, i + 1, Append(routes, routeId), cl)
            ELSE FanOutScan_ClickOrder(question, selected, i + 1, routes, cl)

\* question.options.forEach(opt => ...): the route list and the checklist after
\* the options from position i on have been scanned
RECURSIVE FanOutScan(_, _, _, _, _)
FanOutScan(question, selected, i, routes, cl) ==
    IF i > Len(question.options) THEN [routes |-> routes, checklist |-> cl]
    ELSE LET opt == question.options[i]
             routeId == RouteOf(question, opt)
         IN IF ~Includes(selected, opt)
            THEN FanOutScan(question, selected, i + 1, routes, cl)
            ELSE IF IsEndpoint(routeId)
            THEN FanOutScan(question, selected, i + 1, routes,
                            InjectItems(cl, EndpointItems(FindQuestionById(routeId)), routeId))
            ELSE IF ~Includes(routes, routeId)
            THEN FanOutScan(question, selected, i + 1, Append(routes, routeId), cl)
            ELSE FanOutScan(question, selected, i + 1, routes, cl)

\* allSubQuestionIds.forEach(qId => { if (!routes.includes(qId)) { delete answer; filter } })
StaleSubQuestions(routes) == {q \in Range(allSubQuestionIds) : ~Includes(routes, q)}

\* variant: the stale answers are kept
CleanStaleAnswers_Keep(a, routes) == a

CleanStaleAnswers(a, routes) ==
    [q \in DOMAIN a |-> IF q \in StaleSubQuestions(routes) THEN NoAnswer ELSE a[q]]

\* variant: the entries of stale sub-questions are kept
CleanStaleItems_Keep(cl, routes) == cl

CleanStaleItems(cl, routes) ==
    SelectSeq(cl, LAMBDA item : item.questionId \notin StaleSubQuestions(routes))

\* ['q_qi', 'q_contact_irb'].forEach(epId => { if (!epRouteSelected) filter })
UnselectedEndpoints(question, selected) ==
    {ep \in Range(endpointIds) : ~\E i \in DOMAIN selected : RouteOf(question, selected[i]) = ep}

\* variant: the entries of deselected endpoints are kept
CleanEndpointItems_Keep(cl, question, selected) == cl

CleanEndpointItems(cl, question, selected) ==
    SelectSeq(cl, LAMBDA item : item.questionId \notin UnselectedEndpoints(question, selected))

\* variant: the remaining routes are not stored
FanOutResolve_DropPending(question, a, cl, p) ==
    LET selected == SelectedOf(a[question.id])
        scan == FanOutScan(question, selected, 1, <<>>, cl)
        routes == scan.routes
        a2 == CleanStaleAnswers(a, routes)
        cl2 == CleanEndpointItems(CleanStaleItems(scan.checklist, routes), question, selected)
    IN [nextId |-> IF routes = <<>> THEN "end_determination" ELSE Head(routes),
        answers |-> a2, checklist |-> cl2, pendingRoutes |-> p]

\* the q3_study_type branch of getNextQuestionId
FanOutResolve(question, a, cl, p) ==
    LET selected == SelectedOf(a[question.id])
        scan == FanOutScan(question, selected, 1, <<>>, cl)
        routes == scan.routes
        a2 == CleanStaleAnswers(a, routes)
        cl2 == CleanEndpointItems(CleanStaleItems(scan.checklist, routes), question, selected)
    IN IF routes = <<>>
       THEN [nextId |-> "end_determination", answers |-> a2, checklist |-> cl2,
             pendingRoutes |-> p]
       ELSE [nextId |-> Head(routes), answers |-> a2, checklist |-> cl2,
             pendingRoutes |-> Tail(routes)]

\* variant: any selection that has "None of the above" in it
OnlyNone_Includes(answer) ==
    answer.kind = "array" /\ Includes(answer.v, "None of the above")

\* q9Answer.length === 1 && q9Answer[0] === 'None of the above'
OnlyNone(answer) ==
    answer.kind = "array" /\ Len(answer.v) = 1 /\ answer.v[1] = "None of the above"

\* variant: no fallback for a key the map does not have
RouteOrSummary_NoFallback(question, key) == RouteOf(question, key)

\* question.routing[key] || 'summary'
RouteOrSummary(question, key) ==
    IF RouteOf(question, key) = Undefined THEN "summary" ELSE RouteOf(question, key)

\* variant: a multi-select answer is looked up by its last element
NormalNextId_LastSelected(question, answer) ==
    IF question.routing.kind = "absent" THEN "summary"
    ELSE IF question.routing.kind = "string" THEN question.routing.next
    ELSE IF answer.kind = "array"
         THEN RouteOrSummary(question, IF answer.v = <<>> THEN Undefined
                                       ELSE answer.v[Len(answer.v)])
    ELSE IF answer.kind = "string" THEN RouteOrSummary(question, answer.v)
    ELSE "summary"

\* "Determine normal next question ID"
NormalNextId(question, answer) ==
    IF question.routing.kind = "absent" THEN "summary"
    ELSE IF question.routing.kind = "string" THEN question.routing.next
    ELSE IF answer.kind = "array"
         THEN RouteOrSummary(question, IF answer.v = <<>> THEN Undefined ELSE answer.v[1])
    ELSE IF answer.kind = "string" THEN RouteOrSummary(question, answer.v)
    ELSE "summary"

\* variant: the pending-route override is missing
GetNextQuestionId_NoDrain(question, a, cl, p) ==
    IF question.id = FanOutId THEN FanOutResolve(question, a, cl, p)
    ELSE IF question.id = "q9_oncore" /\ OnlyNone(a["q9_oncore"])
    THEN [nextId |-> "q10_final", answers |-> a, checklist |-> cl, pendingRoutes |-> p]
    ELSE [nextId |-> NormalNextId(question, a[question.id]), answers |-> a,
          checklist |-> cl, pendingRoutes |-> p]

\* variant: the drained route stays in the queue
GetNextQuestionId_NoShift(question, a, cl, p) ==
    IF question.id = FanOutId THEN FanOutResolve(question, a, cl, p)
    ELSE IF question.id = "q9_oncore" /\ OnlyNone(a["q9_oncore"])
    THEN [nextId |-> "q10_final", answers |-> a, checklist |-> cl, pendingRoutes |-> p]
    ELSE IF Len(p) > 0 /\ Includes(subQuestionIds, question.id)
    THEN [nextId |-> Head(p), answers |-> a, checklist |-> cl, pendingRoutes |-> p]
    ELSE [nextId |-> NormalNextId(question, a[question.id]), answers |-> a,
          checklist |-> cl, pendingRoutes |-> p]

\* getNextQuestionId(question): the id returned and the state it leaves
GetNextQuestionId(question, a, cl, p) ==
    IF question.id = FanOutId THEN FanOutResolve(question, a, cl, p)
    ELSE IF question.id = "q9_oncore" /\ OnlyNone(a["q9_oncore"])
    THEN [nextId |-> "q10_final", answers |-> a, checklist |-> cl, pendingRoutes |-> p]
    ELSE IF Len(p) > 0 /\ Includes(subQuestionIds, question.id)
    THEN [nextId |-> Head(p), answers |-> a, checklist |-> cl, pendingRoutes |-> Tail(p)]
    ELSE [nextId |-> NormalNextId(question, a[question.id]), answers |-> a,
          checklist |-> cl, pendingRoutes |-> p]

----------------------------------------------------------------------------
(* The history stack and navigation *)

\* variant: the frame carries no queue snapshot
HistoryFrame_NoSnapshot(cur, a, p) == [questionId |-> cur, answer |-> a[cur], pendingRoutes |-> <<>>]

\* the frame nextQuestion() pushes
HistoryFrame(cur, a, p) == [questionId |-> cur, answer |-> a[cur], pendingRoutes |-> p]

IsTerminalId(id) == id \in {"summary", "end_determination"}

\* variant: the lookup of the next question is taken to succeed
IsQuestion_Always(id) == TRUE

\* if (nextQuestion)
IsQuestion(id) == FindQuestionById(id) # NoQuestion

\* finalQuestion.fixedChecklistItems of the question 'q10_final', if any
FixedChecklistItems ==
    LET finalQuestion == FindQuestionById("q10_final")
    IN IF finalQuestion # NoQuestion /\ "fixedChecklistItems" \in DOMAIN finalQuestion
       THEN finalQuestion.fixedChecklistItems
       ELSE <<>>

\* fixedChecklistItems.forEach(item => { if (!allItems.some(ai => ai.text === item.text))
\*     allItems.push({ ...item, questionId: 'q10_final' }) })
RECURSIVE AppendFixed(_, _)
AppendFixed(allItems, fixed) ==
    IF fixed = <<>> THEN allItems
    ELSE AppendFixed(IF \E i \in DOMAIN allItems : allItems[i].text = Head(fixed).text
                     THEN allItems
                     ELSE Append(allItems, Entry(Head(fixed), "q10_final")),
                     Tail(fixed))

\* variant: the fixed items are pushed onto this.checklist itself
RenderSummary_InPlace(cl) ==
    [allItems |-> AppendFixed(cl, FixedChecklistItems),
     checklist |-> AppendFixed(cl, FixedChecklistItems)]

\* renderSummary(): the list collected from a copy of this.checklist, and
\* this.checklist afterwards
RenderSummary(cl) ==
    [allItems |-> AppendFixed(cl, FixedChecklistItems), checklist |-> cl]

\* a TypeError ends the handler
Thrown == [thrown |-> TRUE]

\* nextQuestion(), the Next button
NextQuestion ==
    /\ screen = "question"
    /\ Len(questionHistory) < MaxHistory
    /\ \E r \in {IF CurrentQuestion = NoQuestion
                  THEN Thrown
                  ELSE GetNextQuestionId(CurrentQuestion, answers, checklist, pendingRoutes)},
          h \in {Append(questionHistory,
                        HistoryFrame(currentQuestionId, answers, pendingRoutes))} :
          /\ questionHistory' = h
          /\ IF r = Thrown
             THEN \* getNextQuestionId(undefined) throws after the push
                  UNCHANGED <<answers, checklist, pendingRoutes, screen, currentQuestionId,
                              localStorage, summaryItems>>
             ELSE /\ answers' = r.answers
                  /\ pendingRoutes' = r.pendingRoutes
                  /\ IF IsTerminalId(r.nextId)
                     THEN \* showSummary(); return
                          /\ screen' = "summary"
                          /\ summaryItems' = RenderSummary(r.checklist).allItems
                          /\ checklist' = RenderSummary(r.checklist).checklist
                          /\ UNCHANGED <<currentQuestionId, localStorage>>
                     ELSE IF IsQuestion(r.nextId)
                     THEN /\ currentQuestionId' = r.nextId
                          /\ screen' = "question"
                          /\ checklist' = r.checklist
                          /\ localStorage' = Snapshot(r.answers, r.checklist, h, r.nextId,
                                                      r.pendingRoutes)
                          /\ UNCHANGED summaryItems
                     ELSE \* showSummary(), then saveProgress()
                          /\ screen' = "summary"
                          /\ summaryItems' = RenderSummary(r.checklist).allItems
                          /\ checklist' = RenderSummary(r.checklist).checklist
                          /\ currentQuestionId' = currentQuestionId
                          /\ localStorage' = Snapshot(r.answers, checklist', h,
                                                      currentQuestionId, r.pendingRoutes)
    /\ lastOp' = Op("nextQuestion", currentQuestionId, Null, FALSE, answers[currentQuestionId],
                    {q \in QuestionIds : answers[q] # NoAnswer /\ answers'[q] = NoAnswer})
    /\ UNCHANGED <<reloads, treeFile, decisionTree>>

\* variant: the frame's queue is read under a wrong name (undefined || [])
PreviousQuestionResult_NoQueue(h) ==
    [currentQuestionId |-> h[Len(h)].questionId,
     pendingRoutes |-> <<>>,
     questionHistory |-> SubSeq(h, 1, Len(h) - 1)]

\* variant: the last frame is read but stays on the stack
PreviousQuestionResult_KeepFrame(h) ==
    [currentQuestionId |-> h[Len(h)].questionId,
     pendingRoutes |-> h[Len(h)].pendingRoutes,
     questionHistory |-> h]

\* what previousQuestion() restores from the popped frame
PreviousQuestionResult(h) ==
    [currentQuestionId |-> h[Len(h)].questionId,
     pendingRoutes |-> h[Len(h)].pendingRoutes,
     questionHistory |-> SubSeq(h, 1, Len(h) - 1)]

\* previousQuestion(), the Previous button
PreviousQuestion ==
    /\ screen = "question"
    /\ IF questionHistory = <<>>
       THEN UNCHANGED <<currentQuestionId, pendingRoutes, questionHistory, localStorage>>
       ELSE LET r == PreviousQuestionResult(questionHistory)
            IN /\ currentQuestionId' = r.currentQuestionId
               /\ pendingRoutes' = r.pendingRoutes
               /\ questionHistory' = r.questionHistory
               /\ localStorage' = Snapshot(answers, checklist, r.questionHistory,
                                           r.currentQuestionId, r.pendingRoutes)
    /\ lastOp' = Op("previousQuestion", currentQuestionId, Null, FALSE, NoAnswer, {})
    /\ UNCHANGED <<summaryItems, reloads, treeFile, decisionTree, answers, checklist, screen>>

\* the Finish button, shown for a summary question or routing === 'summary':
\* showSummary()
Finish ==
    /\ screen = "question"
    /\ \/ CurrentQuestion.type = "summary"
       \/ (CurrentQuestion.routing.kind = "string" /\ CurrentQuestion.routing.next = "summary")
    /\ screen' = "summary"
    /\ summaryItems' = RenderSummary(checklist).allItems
    /\ checklist' = RenderSummary(checklist).checklist
    /\ lastOp' = Op("showSummary", currentQuestionId, Null, FALSE, NoAnswer, {})
    /\ UNCHANGED <<reloads, treeFile, decisionTree, currentQuestionId, answers,
                   questionHistory, pendingRoutes, localStorage>>

\* bound on the number of later visits of the page
MaxReloads == 1

\* the page is opened again: constructor(), the saved item stays
Reload ==
    /\ screen # "welcome"
    /\ reloads < MaxReloads
    /\ reloads' = reloads + 1
    /\ decisionTree' = NoTree
    /\ currentQuestionId' = Null
    /\ answers' = [q \in QuestionIds |-> NoAnswer]
    /\ checklist' = <<>>
    /\ questionHistory' = <<>>
    /\ pendingRoutes' = <<>>
    /\ screen' = "welcome"
    /\ summaryItems' = <<>>
    /\ lastOp' = InitOp
    /\ UNCHANGED <<treeFile, localStorage>>

\* variant: the saved item is not removed
AfterRestart_Keep(saved) == saved

\* localStorage.removeItem(...)
AfterRestart(saved) == NoSaved

\* restart(), confirmed: the saved item is removed and the page reloads
Restart ==
    /\ screen # "welcome"
    /\ decisionTree' = NoTree
    /\ currentQuestionId' = Null
    /\ answers' = [q \in QuestionIds |-> NoAnswer]
    /\ checklist' = <<>>
    /\ questionHistory' = <<>>
    /\ pendingRoutes' = <<>>
    /\ screen' = "welcome"
    /\ localStorage' = AfterRestart(localStorage)
    /\ summaryItems' = <<>>
    /\ lastOp' = InitOp
    /\ UNCHANGED <<reloads, treeFile>>

----------------------------------------------------------------------------
(* Properties *)

SubQuestionSet == Range(allSubQuestionIds)

\* a step of nextQuestion()
NextQuestionStep ==
    /\ lastOp'.op = "nextQuestion"
    /\ Len(questionHistory') = Len(questionHistory) + 1

LastFrame == questionHistory[Len(questionHistory)]

\* the route list a fan-out question builds from an answer
RouteListOf(question, answer) == FanOutScan(question, SelectedOf(answer), 1, <<>>, <<>>).routes

\* s is a subsequence of the question ids of the frames h[k+1..]
RECURSIVE VisitedInOrder(_, _, _)
VisitedInOrder(s, h, k) ==
    IF s = <<>> THEN TRUE
    ELSE IF k >= Len(h) THEN FALSE
    ELSE IF h[k + 1].questionId = Head(s) THEN VisitedInOrder(Tail(s), h, k + 1)
    ELSE VisitedInOrder(s, h, k + 1)

\* every member of the route list is a sub-question id and a question of the tree
AreSubQuestions(routes) ==
    \A i \in DOMAIN routes :
        routes[i] \in SubQuestionSet /\ FindQuestionById(routes[i]) # NoQuestion

\* the positions of the fan-out question's frames in the history
FanOutFrames == {k \in DOMAIN questionHistory : questionHistory[k].questionId = FanOutId}

\* the frames of the history, followed by the current question when it is not
\* the one the last frame left (a terminal advance leaves it in place)
PathIds ==
    LET h == questionHistory
    IN IF h # <<>> /\ h[Len(h)].questionId = currentQuestionId /\ screen = "summary"
       THEN h
       ELSE Append(h, [questionId |-> currentQuestionId])

\* C1: whenever nextQuestion() runs while the current question is one of the
\* sub-question ids and the pending-route queue is not empty, the front of the
\* queue is the next question id (it becomes the current question when the
\* tree has it), exactly that element leaves the queue and the rest keeps its
\* order; the question's own routing is not used.
C1_PendingRouteDrain ==
    [][(NextQuestionStep /\ currentQuestionId \in SubQuestionSet /\ pendingRoutes # <<>>)
         => /\ pendingRoutes' = Tail(pendingRoutes)
            /\ FindQuestionById(Head(pendingRoutes)) # NoQuestion
                 => (currentQuestionId' = Head(pendingRoutes) /\ screen' = "question")
            /\ FindQuestionById(Head(pendingRoutes)) = NoQuestion
                 => (currentQuestionId' = currentQuestionId /\ screen' = "summary")]_vars

\* a drain has happened, to a question other than the left question's own target
C1_Witness ==
    /\ lastOp.op = "nextQuestion"
    /\ lastOp.q \in SubQuestionSet
    /\ LastFrame.pendingRoutes # <<>>
    /\ currentQuestionId = Head(LastFrame.pendingRoutes)
    /\ currentQuestionId # NormalNextId(FindQuestionById(lastOp.q), answers[lastOp.q])
    /\ FindQuestionById(NormalNextId(FindQuestionById(lastOp.q), answers[lastOp.q])) # NoQuestion

\* C2 as stated: once nextQuestion() reaches a terminal state, every target in
\* the route list of the fan-out answer has been the current question, in the
\* declared option order, whatever questions of the tree the targets are.
C2_FanOutCompleteness_AnyTarget ==
    (lastOp.op = "nextQuestion" /\ screen = "summary") =>
        \A k \in FanOutFrames :
            LET routes == RouteListOf(FindQuestionById(FanOutId), questionHistory[k].answer)
            IN (\A i \in DOMAIN routes : FindQuestionById(routes[i]) # NoQuestion)
                  => VisitedInOrder(routes, PathIds, k)

\* C2, amended: the same, for route lists made of sub-question ids that are
\* questions of the tree.
C2_FanOutCompleteness ==
    (lastOp.op = "nextQuestion" /\ screen = "summary") =>
        \A k \in FanOutFrames :
            LET routes == RouteListOf(FindQuestionById(FanOutId), questionHistory[k].answer)
            IN AreSubQuestions(routes) => VisitedInOrder(routes, PathIds, k)

\* options {A, B, C} answered {A, C}, checked in the order C, A: both targets
\* are in the history, A's first
C2_Witness ==
    /\ lastOp.op = "nextQuestion"
    /\ screen = "summary"
    /\ \E k \in FanOutFrames :
          /\ questionHistory[k].answer = Multi(<<"C", "A">>)
          /\ Len(questionHistory) >= k + 2
          /\ questionHistory[k + 1].questionId = "q4_retro_phi"
          /\ questionHistory[k + 2].questionId = "q6_observational"

\* every routing target of the fan-out question is a sub-question id or an
\* endpoint id
FanOutTargetsAreSubQuestions ==
    LET q == FindQuestionById(FanOutId)
    IN \A i \in DOMAIN q.options :
          RouteOf(q, q.options[i]) \in SubQuestionSet \cup Range(endpointIds)

\* a routing target resolves: a terminal id or a question of the tree
Resolves(id) == IsTerminalId(id) \/ FindQuestionById(id) # NoQuestion

\* every routing target of the tree resolves
TargetsResolve ==
    \A i \in DOMAIN Questions :
        LET q == Questions[i]
        IN /\ q.routing.kind = "string" => Resolves(q.routing.next)
           /\ q.routing.kind = "map" =>
                 \A l \in DOMAIN q.routing.map : Resolves(q.routing.map[l])

\* C3 as stated: whenever nextQuestion() reaches a terminal state the
\* pending-route queue is empty, in every tree whose targets resolve.
C3_QueueEmptyAtTerminal_AnyTree ==
    (TargetsResolve /\ lastOp.op = "nextQuestion" /\ screen = "summary")
        => pendingRoutes = <<>>

\* C3, amended: the same, for the trees whose fan-out targets are all
\* sub-question ids or endpoint ids.
C3_QueueEmptyAtTerminal ==
    (TargetsResolve /\ FanOutTargetsAreSubQuestions
        /\ lastOp.op = "nextQuestion" /\ screen = "summary")
        => pendingRoutes = <<>>

\* a terminal state reached by nextQuestion() after a fan-out of three routes
C3_Witness ==
    /\ FanOutTargetsAreSubQuestions
    /\ lastOp.op = "nextQuestion"
    /\ screen = "summary"
    /\ \E k \in FanOutFrames :
          Len(RouteListOf(FindQuestionById(FanOutId), questionHistory[k].answer)) = 3

\* C4: nextQuestion() followed at once by previousQuestion() leaves the
\* current question id and the pending-route queue as they were, and the
\* history at its previous depth, whatever the advance resolved to.
C4_BackwardForwardSymmetry ==
    [][NextQuestionStep =>
         LET r == PreviousQuestionResult(questionHistory')
         IN /\ r.currentQuestionId = currentQuestionId
            /\ r.pendingRoutes = pendingRoutes
            /\ r.questionHistory = questionHistory]_vars

\* an advance that changed the queue (a fan-out resolution or a drain)
C4_Witness ==
    /\ lastOp.op = "nextQuestion"
    /\ questionHistory # <<>>
    /\ LastFrame.pendingRoutes # pendingRoutes
    /\ LastFrame.questionId # currentQuestionId

\* the suffix of s behind its first occurrence of x
RECURSIVE After(_, _)
After(s, x) ==
    IF s = <<>> THEN <<>>
    ELSE IF Head(s) = x THEN Tail(s)
    ELSE After(Tail(s), x)

\* the frames both histories hold keep their queue snapshot
FramesKept ==
    \A i \in DOMAIN questionHistory \cap DOMAIN questionHistory' :
        questionHistory'[i].pendingRoutes = questionHistory[i].pendingRoutes

\* while the fan-out frame is in the history and its route list holds only
\* sub-question ids, a current question in the list has the rest of the list,
\* behind it, as the queue
QueueIsRestOfRoutes ==
    FanOutFrames # {} =>
        LET k == CHOOSE k \in FanOutFrames : \A j \in FanOutFrames : j <= k
            routes == RouteListOf(FindQuestionById(FanOutId), questionHistory[k].answer)
        IN (AreSubQuestions(routes) /\ Includes(routes, currentQuestionId))
              => pendingRoutes = After(routes, currentQuestionId)

\* C5: no operation changes the queue snapshot of a frame that stays in the
\* history, and after a fan-out resolution with routes r1..rn (sub-question
\* ids of the tree), under any interleaving of nextQuestion() and previousQuestion(),
\* whenever ri is the current question the queue is r(i+1)..rn.
C5_SnapshotsKeepBranches == [][FramesKept]_vars /\ []QueueIsRestOfRoutes

\* previousQuestion() has gone back into the middle of a fan-out whose later
\* branch had already been drained
C5_Witness ==
    /\ lastOp.op = "previousQuestion"
    /\ currentQuestionId \in SubQuestionSet
    /\ pendingRoutes # <<>>
    /\ lastOp.q \in SubQuestionSet
    /\ FanOutFrames # {}

\* the sub-questions that are not among the targets of the fan-out answer
NotResolved(answer) ==
    {q \in SubQuestionSet : ~Includes(RouteListOf(FindQuestionById(FanOutId), answer), q)}

HasNothingOf(q) ==
    /\ answers[q] = NoAnswer
    /\ \A i \in DOMAIN checklist : checklist[i].questionId # q

\* C6 as stated: every change of the fan-out question's answer set leaves no
\* answer and no checklist entry of a sub-question that is not a resolved
\* target any more.
C6_CleanupOnAnswerChange ==
    (lastOp.op = "selectCheckboxOption" /\ lastOp.q = FanOutId)
        => \A q \in NotResolved(answers[FanOutId]) : HasNothingOf(q)

\* C6, amended: the cleanup is done by the next nextQuestion() on the fan-out
\* question: after it, no sub-question outside the resolved targets has an
\* answer or a checklist entry.
C6_CleanupOnAdvance ==
    (lastOp.op = "nextQuestion" /\ lastOp.q = FanOutId)
        => \A q \in NotResolved(lastOp.prev) : HasNothingOf(q)

\* the advance from the fan-out question cleared the answer of a sub-question
\* whose option had been deselected
C6_Witness ==
    /\ lastOp.op = "nextQuestion"
    /\ lastOp.q = FanOutId
    /\ lastOp.cleared # {}
    /\ lastOp.cleared \subseteq NotResolved(lastOp.prev)
    /\ lastOp.prev.kind = "array" /\ lastOp.prev.v # <<>>

\* C7: at a terminal state every checklist entry comes from a question on the
\* path recorded in the history (or from an endpoint), in every tree whose
\* targets resolve.
C7_ChecklistOnCurrentPath ==
    (screen = "summary" /\ TargetsResolve) =>
        \A i \in DOMAIN checklist :
            \/ checklist[i].questionId \in {PathIds[j].questionId : j \in DOMAIN PathIds}
            \/ checklist[i].questionId \in Range(endpointIds)

CountIn(s, x) == Cardinality({i \in DOMAIN s : s[i] = x})

SameEntries(s, t) == \A x \in Range(s) \cup Range(t) : CountIn(s, x) = CountIn(t, x)

EntriesOf(cl, qid) == SelectSeq(cl, LAMBDA item : item.questionId = qid)

EntriesNotOf(cl, qid) == SelectSeq(cl, LAMBDA item : item.questionId # qid)

IsSelect(op) == op.op \in {"selectOption", "selectCheckboxOption"}

\* the entries of the answered question are its templates under the stored answer
AnsweredEntriesAreTemplates ==
    IsSelect(lastOp) =>
        SameEntries(EntriesOf(checklist, lastOp.q),
                    Tagged(TemplatesOf(FindQuestionById(lastOp.q), answers[lastOp.q]), lastOp.q))

\* C8: after an answer to q replaces an earlier one, the entries of q are
\* exactly the templates of q under the new answer, and the entries of every
\* other question are kept.
C8_Replacement ==
    /\ []AnsweredEntriesAreTemplates
    /\ [][IsSelect(lastOp') =>
            SameEntries(EntriesNotOf(checklist', lastOp'.q), EntriesNotOf(checklist, lastOp'.q))]_vars

\* a second, different answer whose predecessor had contributed an entry
C8_Witness ==
    /\ lastOp.op = "selectOption"
    /\ lastOp.prev.kind = "string"
    /\ lastOp.prev.v # lastOp.opt
    /\ TemplatesUnder(FindQuestionById(lastOp.q), lastOp.prev.v) # <<>>
    /\ TemplatesUnder(FindQuestionById(lastOp.q), lastOp.opt) # <<>>
    /\ EntriesNotOf(checklist, lastOp.q) # <<>>

SameCall(a, b) == a.op = b.op /\ a.q = b.q /\ a.opt = b.opt /\ a.checked = b.checked

\* C9: the same answer given twice in a row leaves the Answer Store and the
\* checklist as the first call left them, with one entry per template.
C9_Idempotence ==
    /\ [][(IsSelect(lastOp) /\ SameCall(lastOp, lastOp') /\ lastOp'.again)
            => (answers' = answers /\ checklist' = checklist)]_vars
    /\ [][(IsSelect(lastOp') /\ lastOp'.again)
            => Len(EntriesOf(checklist', lastOp'.q))
                 = Len(TemplatesOf(FindQuestionById(lastOp'.q), answers'[lastOp'.q]))]_vars

\* the same option of a checkbox checked twice in a row, with entries for it
C9_Witness ==
    /\ lastOp.op = "selectCheckboxOption"
    /\ lastOp.again
    /\ lastOp.checked
    /\ EntriesOf(checklist, lastOp.q) # <<>>

\* C10: the checklist never holds two entries with the same text and the same
\* originating question.
C10_NoDuplicateEntries ==
    \A i, j \in DOMAIN checklist :
        (checklist[i].text = checklist[j].text /\ checklist[i].questionId = checklist[j].questionId)
            => i = j


\* the sort key as declared by the template: its order when it has one, else 999
DeclaredKey(item) == IF item.hasOrder THEN item.order ELSE MissingOrder

\* C11: after every answer the checklist is in ascending order of the key
\* "the template's numeric order when it has one (0 included), 999 otherwise".
C11_SortedByDeclaredOrder ==
    IsSelect(lastOp) =>
        \A i, j \in DOMAIN checklist :
            i < j => DeclaredKey(checklist[i]) <= DeclaredKey(checklist[j])


EndpointIdSet == Range(endpointIds)

\* the endpoints some selected option of the fan-out question routes to
SelectedEndpoints ==
    LET q == FindQuestionById(FanOutId)
        selected == SelectedOf(answers[FanOutId])
    IN {ep \in EndpointIdSet : \E i \in DOMAIN selected : RouteOf(q, selected[i]) = ep}

\* every template a question carries, as a list or under any label of a map
AllTemplates(question) ==
    IF question.checklistItems.kind = "array" THEN Range(question.checklistItems.items)
    ELSE IF question.checklistItems.kind = "map"
    THEN UNION {Range(question.checklistItems.map[l]) : l \in DOMAIN question.checklistItems.map}
    ELSE {}

\* the templates a question carries as a list
ListedTemplates(question) ==
    IF question.checklistItems.kind = "array" THEN Range(question.checklistItems.items) ELSE {}

\* after the step each of the templates is in the checklist under the
\* endpoint's id, unless its text was there already (before the step, or under
\* the other endpoint), and the endpoint is neither current nor queued
InjectionDone(ep, templates) ==
    /\ \A t \in templates :
          \/ \E i \in DOMAIN checklist' :
                checklist'[i].text = t.text /\ checklist'[i].questionId = ep
          \/ \E i \in DOMAIN checklist : checklist[i].text = t.text
          \/ \E i \in DOMAIN checklist' :
                checklist'[i].text = t.text /\ checklist'[i].questionId \in EndpointIdSet \ {ep}
    /\ currentQuestionId' # ep
    /\ ~Includes(pendingRoutes', ep)

\* C12 as stated: after nextQuestion() on the fan-out question, every template
\* of each selected endpoint is in the checklist under the endpoint's id unless
\* its text was already present, and the endpoint is not routed to.
C12_EndpointInjection_AnyShape ==
    [][(NextQuestionStep /\ currentQuestionId = FanOutId)
         => \A ep \in SelectedEndpoints : InjectionDone(ep, AllTemplates(FindQuestionById(ep)))]_vars

\* C12, amended: the same, for the templates the endpoint carries as a list.
C12_EndpointInjection ==
    [][(NextQuestionStep /\ currentQuestionId = FanOutId)
         => \A ep \in SelectedEndpoints : InjectionDone(ep, ListedTemplates(FindQuestionById(ep)))]_vars

\* nextQuestion() on the fan-out question has injected one template of an
\* endpoint and left out another whose text was in the checklist already
C12_Witness ==
    /\ lastOp.op = "nextQuestion"
    /\ lastOp.q = FanOutId
    /\ \E ep \in EndpointIdSet :
          /\ \E i \in DOMAIN checklist : checklist[i].questionId = ep
          /\ \E t \in ListedTemplates(FindQuestionById(ep)) :
                /\ \E i \in DOMAIN checklist :
                      checklist[i].text = t.text /\ checklist[i].questionId \notin EndpointIdSet
                /\ ~\E i \in DOMAIN checklist :
                      checklist[i].text = t.text /\ checklist[i].questionId = ep


\* no question other than the fan-out question routes to an endpoint id
EndpointsOnlyFromFanOut ==
    \A i \in DOMAIN Questions :
        LET q == Questions[i]
        IN q.id # FanOutId =>
              /\ q.routing.kind = "string" => q.routing.next \notin EndpointIdSet
              /\ q.routing.kind = "map" =>
                    \A l \in DOMAIN q.routing.map : q.routing.map[l] \notin EndpointIdSet

\* C13: on a tree where only the fan-out question routes to endpoint ids, the
\* current question is never an endpoint and the pending-route queue never
\* holds one.
C13_EndpointsNeverVisited ==
    EndpointsOnlyFromFanOut =>
        /\ currentQuestionId \notin EndpointIdSet
        /\ \A i \in DOMAIN pendingRoutes : pendingRoutes[i] \notin EndpointIdSet

\* nextQuestion() on the fan-out question with an endpoint option selected
\* between two other options: the queue holds the second one's target
C13_Witness ==
    /\ EndpointsOnlyFromFanOut
    /\ lastOp.op = "nextQuestion"
    /\ lastOp.q = FanOutId
    /\ SelectedEndpoints # {}
    /\ pendingRoutes # <<>>
    /\ screen = "question"


\* C14: after nextQuestion() on the fan-out question, the checklist has no
\* entry of an endpoint to which no selected option routes.
C14_EndpointCleanup ==
    (lastOp.op = "nextQuestion" /\ lastOp.q = FanOutId) =>
        \A ep \in EndpointIdSet \ SelectedEndpoints :
            \A i \in DOMAIN checklist : checklist[i].questionId # ep

\* nextQuestion() on the fan-out question has removed the entries injected for
\* an endpoint: the last save, made when the option was unchecked, has them
C14_Witness ==
    /\ lastOp.op = "nextQuestion"
    /\ lastOp.q = FanOutId
    /\ localStorage # NoSaved
    /\ localStorage.answers = answers
    /\ \E ep \in EndpointIdSet \ SelectedEndpoints :
          /\ \E i \in DOMAIN localStorage.checklist : localStorage.checklist[i].questionId = ep
          /\ \A i \in DOMAIN checklist : checklist[i].questionId # ep


\* a list without the later occurrences of its elements
RECURSIVE DropLaterDuplicates(_)
DropLaterDuplicates(s) ==
    IF s = <<>> THEN <<>>
    ELSE LET front == DropLaterDuplicates(SubSeq(s, 1, Len(s) - 1))
         IN IF Includes(front, s[Len(s)]) THEN front ELSE Append(front, s[Len(s)])

\* the targets of the selected options that are not endpoints, in declared
\* option order, later duplicates dropped
NonEndpointTargets(question, answer) ==
    LET chosen == SelectSeq(question.options,
                            LAMBDA o : /\ Includes(SelectedOf(answer), o)
                                       /\ RouteOf(question, o) \notin EndpointIdSet)
    IN DropLaterDuplicates([i \in DOMAIN chosen |-> RouteOf(question, chosen[i])])

\* the route list of the fan-out question under the stored answer
RoutesAreNonEndpointTargets ==
    currentQuestionId = FanOutId =>
        RouteListOf(CurrentQuestion, answers[FanOutId])
            = NonEndpointTargets(CurrentQuestion, answers[FanOutId])

\* nextQuestion() on the fan-out question goes to the first of the targets
\* (when the tree has it) and leaves the others as the queue
FirstIsNextRestIsQueue ==
    (NextQuestionStep /\ currentQuestionId = FanOutId) =>
        LET routes == NonEndpointTargets(CurrentQuestion, answers[FanOutId])
        IN routes # <<>> =>
              /\ pendingRoutes' = Tail(routes)
              /\ FindQuestionById(Head(routes)) # NoQuestion
                   => (currentQuestionId' = Head(routes) /\ screen' = "question")

\* C15: the route list of nextQuestion() on the fan-out question is the list
\* of the non-endpoint targets of the selected options in declared option
\* order without later duplicates; when it is not empty, its first element is
\* the next question and the rest replaces the pending-route queue.
C15_FanOutRouteList == []RoutesAreNonEndpointTargets /\ [][FirstIsNextRestIsQueue]_vars

\* nextQuestion() on the fan-out question, reached again with a route pending,
\* has replaced the queue
C15_Witness ==
    /\ lastOp.op = "nextQuestion"
    /\ lastOp.q = FanOutId
    /\ screen = "question"
    /\ LastFrame.pendingRoutes # <<>>
    /\ pendingRoutes # LastFrame.pendingRoutes
    /\ pendingRoutes = Tail(NonEndpointTargets(FindQuestionById(FanOutId), LastFrame.answer))


\* nextQuestion() on the fan-out question with no target to go to
EmptyFanOutStep ==
    /\ NextQuestionStep
    /\ currentQuestionId = FanOutId
    /\ NonEndpointTargets(CurrentQuestion, answers[FanOutId]) = <<>>

\* C16: nextQuestion() on the fan-out question with an empty route list
\* resolves to end_determination and shows the terminal state, the fan-out
\* question stays the current question, and by then every sub-question has
\* lost its answer and entries and every unselected endpoint its entries.
C16_EmptyFanOut ==
    [][EmptyFanOutStep =>
         /\ GetNextQuestionId(CurrentQuestion, answers, checklist, pendingRoutes).nextId
              = "end_determination"
         /\ screen' = "summary"
         /\ currentQuestionId' = FanOutId
         /\ \A q \in SubQuestionSet :
               /\ answers'[q] = NoAnswer
               /\ \A i \in DOMAIN checklist' : checklist'[i].questionId # q
         /\ \A ep \in EndpointIdSet \ SelectedEndpoints :
               \A i \in DOMAIN checklist' : checklist'[i].questionId # ep]_vars

\* only an endpoint option is selected and nextQuestion() has ended the
\* session on the fan-out question; the entry of a sub-question, still in the
\* last save, is gone
C16_Witness ==
    /\ lastOp.op = "nextQuestion"
    /\ lastOp.q = FanOutId
    /\ screen = "summary"
    /\ currentQuestionId = FanOutId
    /\ SelectedEndpoints # {}
    /\ NonEndpointTargets(CurrentQuestion, answers[FanOutId]) = <<>>
    /\ localStorage # NoSaved
    /\ \E i \in DOMAIN localStorage.checklist :
          localStorage.checklist[i].questionId \in SubQuestionSet
    /\ \A i \in DOMAIN checklist : checklist[i].questionId \notin SubQuestionSet


\* the one-element selection ["None of the above"]
NoneOnly == Multi(<<"None of the above">>)

\* nextQuestion() runs on a question that is not the fan-out question, with
\* neither the skip rule nor the pending-route drain applying
PlainStep ==
    /\ NextQuestionStep
    /\ currentQuestionId # FanOutId
    /\ ~(currentQuestionId = "q9_oncore" /\ answers["q9_oncore"] = NoneOnly)
    /\ ~(currentQuestionId \in SubQuestionSet /\ pendingRoutes # <<>>)

\* the label that indexes a routing map: the single label, or the first
\* selected option of a multi-select answer
RoutingKey(answer) ==
    IF answer.kind = "string" THEN answer.v
    ELSE IF answer.kind = "array" /\ answer.v # <<>> THEN answer.v[1]
    ELSE Undefined

\* the routing rules: the string, summary without routing, the map's entry
\* for the key and summary when it has none
RoutingRule(question, answer) ==
    IF question.routing.kind = "string" THEN question.routing.next
    ELSE IF question.routing.kind = "absent" THEN "summary"
    ELSE IF RoutingKey(answer) \in DOMAIN question.routing.map
    THEN question.routing.map[RoutingKey(answer)]
    ELSE "summary"

\* what a step of nextQuestion() that resolves to id does
Lands(id) ==
    IF id \notin {"summary", "end_determination"} /\ FindQuestionById(id) # NoQuestion
    THEN currentQuestionId' = id /\ screen' = "question"
    ELSE currentQuestionId' = currentQuestionId /\ screen' = "summary"

\* the id the code's resolver returns in the current state
ReturnedId == GetNextQuestionId(CurrentQuestion, answers, checklist, pendingRoutes).nextId

\* C17: on a question that is not the fan-out question, with neither the skip
\* rule nor the drain applying, nextQuestion() resolves to the routing string
\* when the routing is one, to summary when there is no routing, and with a
\* routing map and a single label or no answer to the map's entry for the
\* label, or summary when the map has none.
C17_PlainRouting ==
    [][(PlainStep /\ ~(CurrentQuestion.routing.kind = "map"
                          /\ answers[currentQuestionId].kind = "array"))
         => LET id == RoutingRule(CurrentQuestion, answers[currentQuestionId])
            IN ReturnedId = id /\ Lands(id)]_vars

\* a single label that the routing map of the question does not have has led
\* to the terminal state
C17_Witness ==
    /\ lastOp.op = "nextQuestion"
    /\ FindQuestionById(lastOp.q).routing.kind = "map"
    /\ lastOp.prev.kind = "string"
    /\ lastOp.prev.v \notin DOMAIN FindQuestionById(lastOp.q).routing.map
    /\ LastFrame.pendingRoutes = <<>>
    /\ screen = "summary"

\* a step of selectCheckboxOption(): the option goes to the end of the
\* selection when checked and not in it, and leaves it when unchecked
KeepsInsertionOrder ==
    lastOp'.op = "selectCheckboxOption" =>
        LET before == SelectedOf(lastOp'.prev)
            after == answers'[lastOp'.q]
        IN /\ after.kind = "array"
           /\ after.v = IF ~lastOp'.checked THEN Without(before, lastOp'.opt)
                        ELSE IF Includes(before, lastOp'.opt) THEN before
                        ELSE Append(before, lastOp'.opt)

\* C18: the stored selection keeps the order in which its options were
\* checked, and on a question other than the fan-out question a routing map
\* is indexed by the first selected option only, with summary when the map has
\* no entry for it or nothing is selected.
C18_FirstSelectedRoutes ==
    /\ [][KeepsInsertionOrder]_vars
    /\ [][(PlainStep /\ CurrentQuestion.routing.kind = "map"
                     /\ answers[currentQuestionId].kind = "array")
            => LET id == RoutingRule(CurrentQuestion, answers[currentQuestionId])
               IN ReturnedId = id /\ Lands(id)]_vars

\* two options are selected and the first one checked has decided the next
\* question; the other one is declared before it and its entry names another
\* question of the tree
C18_Witness ==
    /\ lastOp.op = "nextQuestion"
    /\ lastOp.q # FanOutId
    /\ lastOp.prev.kind = "array"
    /\ Len(lastOp.prev.v) >= 2
    /\ screen = "question"
    /\ LET q == FindQuestionById(lastOp.q)
       IN /\ currentQuestionId = RouteOf(q, lastOp.prev.v[1])
          /\ \E i \in DOMAIN lastOp.prev.v :
                /\ RouteOf(q, lastOp.prev.v[i]) # currentQuestionId
                /\ FindQuestionById(RouteOf(q, lastOp.prev.v[i])) # NoQuestion
                /\ \E m, n \in DOMAIN q.options :
                      /\ q.options[m] = lastOp.prev.v[i]
                      /\ q.options[n] = lastOp.prev.v[1]
                      /\ m < n

\* C19: nextQuestion() on q9_oncore goes to q10_final exactly when the stored
\* answer is the selection ["None of the above"] alone; with any other answer
\* the routing rules decide.
C19_SkipRule ==
    [][(NextQuestionStep /\ currentQuestionId = "q9_oncore")
         => LET id == IF answers["q9_oncore"] = NoneOnly THEN "q10_final"
                      ELSE RoutingRule(CurrentQuestion, answers["q9_oncore"])
            IN ReturnedId = id /\ Lands(id)]_vars

\* the skip has been taken past a declared follow-up question
C19_Witness ==
    /\ lastOp.op = "nextQuestion"
    /\ lastOp.q = "q9_oncore"
    /\ lastOp.prev = NoneOnly
    /\ currentQuestionId = "q10_final"
    /\ RoutingRule(FindQuestionById("q9_oncore"), NoneOnly) # "q10_final"
    /\ FindQuestionById(RoutingRule(FindQuestionById("q9_oncore"), NoneOnly)) # NoQuestion

\* the id nextQuestion() resolves to: the first fan-out target, the skip
\* rule's, the front of the queue, or the routing rules'
ResolvedId ==
    IF currentQuestionId = FanOutId
    THEN LET routes == NonEndpointTargets(CurrentQuestion, answers[FanOutId])
         IN IF routes = <<>> THEN "end_determination" ELSE Head(routes)
    ELSE IF currentQuestionId = "q9_oncore" /\ answers["q9_oncore"] = NoneOnly THEN "q10_final"
    ELSE IF currentQuestionId \in SubQuestionSet /\ pendingRoutes # <<>> THEN Head(pendingRoutes)
    ELSE RoutingRule(CurrentQuestion, answers[currentQuestionId])

\* C20: when nextQuestion() resolves to an id that is neither a terminal id
\* nor a question of the tree, the terminal state is shown and the current
\* question stays the question that was left, a question of the tree.
C20_NotFoundRecovery ==
    [][(NextQuestionStep /\ ResolvedId \notin {"summary", "end_determination"}
                         /\ FindQuestionById(ResolvedId) = NoQuestion)
         => /\ ReturnedId = ResolvedId
            /\ screen' = "summary"
            /\ currentQuestionId' = currentQuestionId
            /\ FindQuestionById(currentQuestionId') # NoQuestion]_vars

\* a route drained from the queue names no question of the tree: the session
\* has ended on the sub-question that was left
C20_Witness ==
    /\ lastOp.op = "nextQuestion"
    /\ lastOp.q \in SubQuestionSet
    /\ LastFrame.pendingRoutes # <<>>
    /\ FindQuestionById(Head(LastFrame.pendingRoutes)) = NoQuestion
    /\ screen = "summary"
    /\ currentQuestionId = lastOp.q
    /\ pendingRoutes = Tail(LastFrame.pendingRoutes)

\* the targets a question's routing declares
RoutingTargets(q) ==
    IF q.routing.kind = "string" THEN {q.routing.next}
    ELSE IF q.routing.kind = "map" THEN {q.routing.map[l] : l \in DOMAIN q.routing.map}
    ELSE {}

\* the routing graph a tree declares: an edge from a question to each target
DeclaredEdges(tree) ==
    UNION {{<<tree[i].id, t>> : t \in RoutingTargets(tree[i])} : i \in DOMAIN tree}

\* the edge the skip rule adds in a tree that has the OnCore question
SkipEdges(tree) ==
    IF \E i \in DOMAIN tree : tree[i].id = "q9_oncore"
    THEN {<<"q9_oncore", "q10_final">>}
    ELSE {}

\* the pairs joined by a path of at most n + 1 edges
RECURSIVE PathsWithin(_, _)
PathsWithin(E, n) ==
    IF n = 0 THEN E
    ELSE LET R == PathsWithin(E, n - 1)
         IN R \cup {<<z[1][1], z[2][2]>> : z \in {y \in R \X E : y[1][2] = y[2][1]}}

Acyclic(E) == \A p \in PathsWithin(E, Cardinality(E)) : p[1] # p[2]

\* the trees whose declared routing has no cycle
DeclaredAcyclicTrees == {t \in DOMAIN Trees : Acyclic(DeclaredEdges(Trees[t]))}

\* the trees whose routing, with the skip rule's edge, has no cycle
AcyclicTrees ==
    {t \in DOMAIN Trees : Acyclic(DeclaredEdges(Trees[t]) \cup SkipEdges(Trees[t]))}

\* the served tree's declared routing has no cycle
DeclaredRoutingAcyclic == treeFile \in DeclaredAcyclicTrees

\* the served tree's routing, with the skip rule's edge, has no cycle
RoutingAcyclic == treeFile \in AcyclicTrees

\* a question is displayed and the last handler that ran was nextQuestion()
Advancing == screen = "question" /\ lastOp.op = "nextQuestion"

\* the engine does not go on advancing for ever: time and again a terminal
\* state is reached or another handler runs
CompletesUnderNext == []<>(~Advancing)

C21_NoRevisit ==
    (RoutingAcyclic /\ screen = "question") =>
        /\ Len(questionHistory) < MaxHistory
        /\ \A i, j \in DOMAIN questionHistory :
               questionHistory[i].questionId = questionHistory[j].questionId => i = j
        /\ \A i \in DOMAIN questionHistory :
               questionHistory[i].questionId # currentQuestionId

Session(a, cl, h, cur, p) ==
    [answers |-> a, checklist |-> cl, questionHistory |-> h,
     currentQuestionId |-> cur, pendingRoutes |-> p]

\* an id as it is read back from the saved item: undefined comes back as null
ReadBackId(id) == IF id = Undefined THEN Null ELSE id

ReadBackIds(s) == [i \in DOMAIN s |-> ReadBackId(s[i])]

ReadBackFrames(h) ==
    [i \in DOMAIN h |->
        [questionId |-> h[i].questionId, answer |-> h[i].answer,
         pendingRoutes |-> ReadBackIds(h[i].pendingRoutes)]]

\* the fields loadProgress() assigns from an item
Loaded(item) ==
    Session(item.answers, item.checklist, item.questionHistory, item.currentQuestionId,
            item.pendingRoutes)

IsSavedSession(item) == item \notin {NoSaved, Unparsable}

\* a step that writes the item from a running session (saveProgress)
WritesItem ==
    /\ screen' # "welcome"
    /\ IsSavedSession(localStorage')
    /\ \/ localStorage' # localStorage
       \/ (screen # "welcome" /\ UNCHANGED <<answers, checklist, questionHistory,
                                             currentQuestionId, pendingRoutes, lastOp>>)

\* a step of loadProgress() that displays the saved question
LoadsItem ==
    /\ lastOp'.op = "loadProgress"
    /\ screen = "welcome"
    /\ IsSavedSession(localStorage)
    /\ FindQuestionById(localStorage.currentQuestionId) # NoQuestion

\* no undefined entry in the queue or in a frame's snapshot
NoUndefinedRoute ==
    /\ ~Includes(pendingRoutes, Undefined)
    /\ \A i \in DOMAIN questionHistory : ~Includes(questionHistory[i].pendingRoutes, Undefined)

\* the resolver and the retreat give the same result, up to reading undefined
\* back as null, on the live queue and history and on those read back
SameAfterReadBack ==
    screen = "question" =>
        /\ LET live == GetNextQuestionId(CurrentQuestion, answers, checklist, pendingRoutes)
               back == GetNextQuestionId(CurrentQuestion, answers, checklist,
                                         ReadBackIds(pendingRoutes))
           IN /\ ReadBackId(back.nextId) = ReadBackId(live.nextId)
              /\ IsTerminalId(back.nextId) = IsTerminalId(live.nextId)
              /\ IsQuestion(back.nextId) = IsQuestion(live.nextId)
              /\ back.answers = live.answers
              /\ back.checklist = live.checklist
              /\ ReadBackIds(back.pendingRoutes) = ReadBackIds(live.pendingRoutes)
        /\ questionHistory # <<>> =>
             LET live == PreviousQuestionResult(questionHistory)
                 back == PreviousQuestionResult(ReadBackFrames(questionHistory))
             IN /\ back.currentQuestionId = live.currentQuestionId
                /\ back.pendingRoutes = ReadBackIds(live.pendingRoutes)
                /\ back.questionHistory = ReadBackFrames(live.questionHistory)

LoadsCorruptItem ==
    /\ lastOp'.op = "loadProgress"
    /\ screen = "welcome"
    /\ localStorage # NoSaved
    /\ \/ localStorage = Unparsable
       \/ \A i \in DOMAIN Questions : Questions[i].id # localStorage.currentQuestionId

\* C23: loadProgress() on a saved item that does not parse or whose current
\* question cannot be displayed leaves answers, checklist, history and queue
\* empty, and nothing of the item is in the live state: its current question
\* id is not the live one.
C23_NothingSurvives ==
    [][LoadsCorruptItem =>
          /\ \A q \in DOMAIN answers' : answers'[q] = NoAnswer
          /\ checklist' = <<>>
          /\ questionHistory' = <<>>
          /\ pendingRoutes' = <<>>
          /\ localStorage # Unparsable =>
                currentQuestionId' # localStorage.currentQuestionId]_vars

\* C23, in the trees that have a question: loadProgress() on such an item
\* leaves a fresh assessment, answers, checklist, history and queue empty and
\* the first question of the tree current and displayed.
C23_CorruptRecovery ==
    [][LoadsCorruptItem =>
          /\ \A q \in DOMAIN answers' : answers'[q] = NoAnswer
          /\ checklist' = <<>>
          /\ questionHistory' = <<>>
          /\ pendingRoutes' = <<>>
          /\ Len(Questions) > 0 =>
                /\ currentQuestionId' = Questions[1].id
                /\ screen' = "question"]_vars

\* a saved session with answers, frames and a queue, whose current question
\* is not in the tree, was loaded and the first question is displayed
C23_Witness ==
    /\ lastOp.op = "loadProgress"
    /\ IsSavedSession(localStorage)
    /\ localStorage.currentQuestionId = RemovedId
    /\ \E q \in DOMAIN localStorage.answers : localStorage.answers[q] # NoAnswer
    /\ localStorage.questionHistory # <<>>
    /\ localStorage.pendingRoutes # <<>>
    /\ currentQuestionId = Questions[1].id
    /\ screen = "question"
    /\ questionHistory = <<>>

\* a step of the Start button while no tree is loaded or the tree is empty
StartsWithoutTree ==
    /\ screen = "welcome"
    /\ lastOp'.op = "startNewAssessment"
    /\ UNCHANGED <<decisionTree, localStorage>>
    /\ \/ decisionTree = NoTree
       \/ Trees[decisionTree] = <<>>

\* C24: startNewAssessment() pressed while the tree is not yet loaded, or is
\* empty, creates no session: the current question id stays unset, the welcome
\* screen stays, and answers, checklist, history and queue are empty.
C24_NoPartialSession ==
    [][StartsWithoutTree =>
          /\ currentQuestionId' = Null
          /\ screen' = "welcome"
          /\ \A q \in DOMAIN answers' : answers'[q] = NoAnswer
          /\ checklist' = <<>>
          /\ questionHistory' = <<>>
          /\ pendingRoutes' = <<>>]_vars

\* Start was pressed before the fetch of a tree with questions completed
C24_Witness ==
    /\ lastOp.op = "startNewAssessment"
    /\ decisionTree = NoTree
    /\ Trees[treeFile] # <<>>
    /\ screen = "welcome"
    /\ currentQuestionId = Null

\* a step of startNewAssessment() on a loaded tree that has a question: the
\* Start button, or the catch of loadProgress()
StartsOnTree ==
    /\ screen = "welcome"
    /\ decisionTree # NoTree
    /\ Trees[decisionTree] # <<>>
    /\ \/ lastOp'.op = "startNewAssessment" /\ UNCHANGED localStorage
       \/ LoadsCorruptItem

\* a step of restart(), confirmed
RestartStep ==
    /\ screen # "welcome"
    /\ screen' = "welcome"
    /\ reloads' = reloads

\* C25: after startNewAssessment() on a loaded tree, answers, checklist,
\* history and queue are empty and the first question of the tree is current
\* and displayed, whatever was saved or assigned before; after a confirmed
\* restart the session is the one of a page just opened and the saved item is
\* absent, so that the Load button has nothing to load.
C25_HardReset ==
    [][/\ StartsOnTree =>
            /\ \A q \in DOMAIN answers' : answers'[q] = NoAnswer
            /\ checklist' = <<>>
            /\ questionHistory' = <<>>
            /\ pendingRoutes' = <<>>
            /\ currentQuestionId' = Trees[decisionTree][1].id
            /\ screen' = "question"
       /\ RestartStep =>
            /\ \A q \in DOMAIN answers' : answers'[q] = NoAnswer
            /\ checklist' = <<>>
            /\ questionHistory' = <<>>
            /\ pendingRoutes' = <<>>
            /\ currentQuestionId' = Null
            /\ decisionTree' = NoTree
            /\ localStorage' = NoSaved]_vars

\* Start was pressed in a later visit while the item of the previous
\* assessment, with frames and a queue, was saved: the session is empty
C25_Witness ==
    /\ lastOp.op = "startNewAssessment"
    /\ screen = "question"
    /\ currentQuestionId = Questions[1].id
    /\ \A q \in DOMAIN answers : answers[q] = NoAnswer
    /\ questionHistory = <<>>
    /\ pendingRoutes = <<>>
    /\ IsSavedSession(localStorage)
    /\ localStorage.questionHistory # <<>>
    /\ localStorage.pendingRoutes # <<>>

\* the fixed items the tree declares on its first question named q10_final
DeclaredFixedItems ==
    LET I == {i \in DOMAIN Questions : Questions[i].id = "q10_final"}
    IN IF I = {} THEN <<>>
       ELSE LET q == Questions[CHOOSE i \in I : \A j \in I : i <= j]
            IN IF "fixedChecklistItems" \in DOMAIN q THEN q.fixedChecklistItems ELSE <<>>

\* the fixed items to append to a list: those whose text is neither in the
\* list nor the text of an earlier fixed item, in declared order
FixedToAppend(cl) ==
    LET fixed == DeclaredFixedItems
        keep(k) == /\ \A i \in DOMAIN cl : cl[i].text # fixed[k].text
                   /\ \A j \in 1..(k - 1) : fixed[j].text # fixed[k].text
        idx == SelectSeq([k \in 1..Len(fixed) |-> k], keep)
    IN [n \in 1..Len(idx) |->
           [text |-> fixed[idx[n]].text, hasOrder |-> fixed[idx[n]].hasOrder,
            order |-> fixed[idx[n]].order, questionId |-> "q10_final"]]

\* C26: at the summary the collected list is the checklist followed by each
\* fixed item of q10_final whose text is neither in the checklist nor the
\* text of an earlier fixed item, whether q10_final was visited or not and
\* however the summary was reached; the session's checklist holds none of
\* the appended items, and the Finish button leaves it as it was.
C26_FixedFinalItems ==
    /\ [](screen = "summary" =>
            /\ summaryItems = checklist \o FixedToAppend(checklist)
            /\ \A i \in DOMAIN checklist : checklist[i].questionId # "q10_final")
    /\ [][(screen = "question" /\ lastOp'.op = "showSummary") =>
             checklist' = checklist]_vars

\* the summary was reached without a visit of q10_final; one fixed item has
\* the text of a checklist entry, two fixed items share a text, and exactly
\* one item was appended
C26_Witness ==
    /\ screen = "summary"
    /\ \A i \in DOMAIN questionHistory : questionHistory[i].questionId # "q10_final"
    /\ \E k \in DOMAIN DeclaredFixedItems : \E i \in DOMAIN checklist :
           checklist[i].text = DeclaredFixedItems[k].text
    /\ \E j, k \in DOMAIN DeclaredFixedItems :
           j < k /\ DeclaredFixedItems[j].text = DeclaredFixedItems[k].text
    /\ Len(summaryItems) = Len(checklist) + 1
    /\ summaryItems[Len(summaryItems)].questionId = "q10_final"

\* C27: in every tree whose routing targets resolve, each element of the
\* pending-route queue and of every frame's queue snapshot is the id of a
\* question of the tree or a sentinel.
C27_PendingRoutesResolve ==
    TargetsResolve =>
        /\ \A i \in DOMAIN pendingRoutes : Resolves(pendingRoutes[i])
        /\ \A k \in DOMAIN questionHistory :
               \A i \in DOMAIN questionHistory[k].pendingRoutes :
                   Resolves(questionHistory[k].pendingRoutes[i])

\* a step of the Next button's handler, of the Previous button's handler
AdvanceStep == screen = "question" /\ lastOp'.op = "nextQuestion"
RetreatStep == screen = "question" /\ lastOp'.op = "previousQuestion"

\* C28: every advance pushes exactly one frame holding the id of the question
\* being left, its stored answer and the queue as it stood before routing was
\* resolved, also when the advance ends on the summary; every retreat on a
\* non-empty stack pops exactly one frame; a retreat on an empty stack changes
\* nothing; every other step leaves the stack alone or empties it for a new
\* assessment, so the depth is the advances minus the effective retreats.
C28_HistoryDiscipline ==
    [][/\ AdvanceStep =>
              questionHistory' =
                  Append(questionHistory,
                         [questionId |-> currentQuestionId,
                          answer |-> answers[currentQuestionId],
                          pendingRoutes |-> pendingRoutes])
       /\ (RetreatStep /\ questionHistory # <<>>) =>
              questionHistory' = SubSeq(questionHistory, 1, Len(questionHistory) - 1)
       /\ (RetreatStep /\ questionHistory = <<>>) =>
              UNCHANGED <<currentQuestionId, answers, checklist, questionHistory,
                          pendingRoutes, screen, localStorage, summaryItems, decisionTree>>
       /\ (~AdvanceStep /\ ~RetreatStep) =>
              \/ UNCHANGED questionHistory
              \/ /\ questionHistory' = <<>>
                 /\ lastOp'.op \in {"startNewAssessment", InitOp.op}]_vars

\* an advance that ended on the summary without changing the current
\* question, after the queue it snapshotted was rewritten by the routing
C28_Witness ==
    /\ lastOp.op = "nextQuestion"
    /\ screen = "summary"
    /\ Len(questionHistory) >= 2
    /\ LastFrame.questionId = currentQuestionId
    /\ LastFrame.answer # NoAnswer
    /\ LastFrame.pendingRoutes # pendingRoutes

\* a step of selectOption() or selectCheckboxOption() on the question shown
AnswerStep ==
    /\ screen = "question"
    /\ lastOp'.op \in {"selectOption", "selectCheckboxOption"}

\* the list addToChecklist() hands to the sort: the other questions' entries,
\* then the entries just appended for the answered question
BeforeSort ==
    RemoveQuestion(checklist, currentQuestionId)
        \o Tagged(TemplatesOf(CurrentQuestion, answers'[currentQuestionId]), currentQuestionId)

\* two entries with equal explicit order, or both lacking an order
SameOrderClass(a, b) == a.hasOrder = b.hasOrder /\ (a.hasOrder => a.order = b.order)

\* C29: after the re-sort of an answer step, the entries of every class of
\* equal explicit order, and the entries lacking an order, stand in the
\* relative order they had in the list before sorting.
C29_SortStability ==
    [][AnswerStep =>
         \A k \in DOMAIN BeforeSort :
             SelectSeq(checklist', LAMBDA e : SameOrderClass(e, BeforeSort[k]))
                 = SelectSeq(BeforeSort, LAMBDA e : SameOrderClass(e, BeforeSort[k]))]_vars

\* an answer whose entry was sorted ahead of an older entry and stayed behind
\* an older entry of its own explicit order
C29_Witness ==
    /\ screen = "question"
    /\ lastOp.op \in {"selectOption", "selectCheckboxOption"}
    /\ \E i, j, k \in DOMAIN checklist :
          /\ i < j /\ j < k
          /\ checklist[i].hasOrder
          /\ SameOrderClass(checklist[i], checklist[j])
          /\ checklist[i].questionId # currentQuestionId
          /\ checklist[j].questionId = currentQuestionId
          /\ checklist[k].questionId # currentQuestionId

\* the texts of the entries the checklist holds for question q
EntryTexts(q) == {e.text : e \in Range(EntriesOf(checklist, q))}

\* the texts of the templates of q under its stored answer (none without one)
SelectedTexts(q) == {t.text : t \in Range(TemplatesOf(FindQuestionById(q), answers[q]))}

\* C30: in every reachable state, for every question that is not an endpoint,
\* the checklist holds an entry (q, text) if and only if q has a stored answer
\* and text is a template of q under that answer.
C30_AnswerChecklistConsistency ==
    \A q \in QuestionIds \ Range(endpointIds) : EntryTexts(q) = SelectedTexts(q)

\* an advance that cleared the answer of a question carrying templates, while
\* another question keeps an answer and the entries it selects
C30_Witness ==
    /\ lastOp.op = "nextQuestion"
    /\ \E q \in lastOp.cleared :
          /\ FindQuestionById(q).checklistItems.kind = "map"
          /\ answers[q] = NoAnswer
          /\ EntryTexts(q) = {}
    /\ \E q \in QuestionIds \ Range(endpointIds) :
          /\ answers[q] # NoAnswer
          /\ EntryTexts(q) # {}

\* C31: in every reachable state the checklist is in ascending order of the
\* sort key, a missing order counted as 999 (the key is the comparator's own,
\* which also counts the order 0 as 999).
C31_ChecklistAlwaysSorted ==
    \A i, j \in DOMAIN checklist :
        i < j => OrderKey(checklist[i]) <= OrderKey(checklist[j])

\* updateNavigationButtons(question): the Next button is on show
NextButtonShown ==
    LET question == CurrentQuestion
    IN IF \/ question.type = "summary"
          \/ (question.routing.kind = "string" /\ question.routing.next = "summary")
       THEN FALSE
       ELSE IF question.type = "info" \/ question.routing.kind = "string"
       THEN TRUE
       ELSE IF answers[question.id].kind = "array"
       THEN answers[question.id].v # <<>>
       ELSE answers[question.id] # NoAnswer

\* a step of answer(), advance() or retreat() that ran to its end: not a
\* retreat on an empty stack, not an advance that threw on a missing question
\* or that the interface does not offer
CompletedStep ==
    \/ AnswerStep
    \/ AdvanceStep /\ CurrentQuestion # NoQuestion /\ NextButtonShown
    \/ RetreatStep /\ questionHistory # <<>>

\* C32: after every completed answer(), advance() and retreat() the persisted
\* snapshot is the snapshot of the live state (answers, checklist, history,
\* current question id, pending-route queue), also after an advance that
\* reaches a terminal state.
C32_SnapshotCurrent ==
    [][CompletedStep =>
         localStorage' = Snapshot(answers', checklist', questionHistory',
                                  currentQuestionId', pendingRoutes')]_vars

\* the orders in which the labels of s can have been checked
ClickOrders(s) ==
    {p \in [DOMAIN s -> Range(s)] : \A i, j \in DOMAIN s : p[i] = p[j] => i = j}

\* the session that holds the same state, the labels of the fan-out answer
\* checked in the order p
OtherSession(p) ==
    [answers |-> [answers EXCEPT ![FanOutId] = Multi(p)],
     checklist |-> AddToChecklist(checklist, CurrentQuestion, Multi(p))]

\* the outcome of advance() in the two sessions: next id, queue, the other
\* questions' answers and the entries the checklist holds
SameResolution(r1, r2) ==
    /\ r1.nextId = r2.nextId
    /\ r1.pendingRoutes = r2.pendingRoutes
    /\ \A q \in QuestionIds \ {FanOutId} : r1.answers[q] = r2.answers[q]
    /\ Range(r1.checklist) = Range(r2.checklist)

\* C33: at the fan-out question, a session that holds the same set of selected
\* options checked in another order gets from advance() the same next question
\* id, the same pending-route queue and the same cleanups.
C33_ClickOrderIndependence ==
    (screen = "question" /\ currentQuestionId = FanOutId /\ answers[FanOutId].kind = "array") =>
        \A p \in ClickOrders(answers[FanOutId].v) :
            SameResolution(
                GetNextQuestionId(CurrentQuestion, answers, checklist, pendingRoutes),
                GetNextQuestionId(CurrentQuestion, OtherSession(p).answers,
                                  OtherSession(p).checklist, pendingRoutes))

\* an advance from the fan-out question whose labels were checked against the
\* declared option order, with a route queued and a stale answer cleared
C33_Witness ==
    /\ lastOp.op = "nextQuestion"
    /\ lastOp.q = FanOutId
    /\ lastOp.cleared # {}
    /\ pendingRoutes # <<>>
    /\ LastFrame.answer.kind = "array"
    /\ Len(LastFrame.answer.v) >= 2
    /\ LastFrame.answer.v # SelectSeq(FindQuestionById(FanOutId).options,
                                      LAMBDA opt : Includes(LastFrame.answer.v, opt))

\* a step of the Finish button's handler
FinishStep == screen = "question" /\ lastOp'.op = "showSummary"

\* a step that starts an assessment, on this page or on a page loaded anew
StartStep == lastOp'.op \in {"startNewAssessment", InitOp.op}

\* C34: retreat(), advance() from a question other than the fan-out question
\* and the Finish button leave the answers and the checklist unchanged; they
\* change only in answer(), in advance() from the fan-out question and when an
\* assessment starts.
C34_NavigationFrame ==
    [][/\ (RetreatStep \/ FinishStep \/ (AdvanceStep /\ currentQuestionId # FanOutId))
           => UNCHANGED <<answers, checklist>>
       /\ (answers' # answers \/ checklist' # checklist)
           => \/ AnswerStep
              \/ AdvanceStep /\ currentQuestionId = FanOutId
              \/ StartStep]_vars

\* a retreat to the fan-out question after its resolution had left a
\* sub-question outside the targets without answer and entries, while another
\* question keeps its answer and the checklist its entries
C34_Witness ==
    /\ lastOp.op = "previousQuestion"
    /\ currentQuestionId = FanOutId
    /\ checklist # <<>>
    /\ \E q \in NotResolved(answers[FanOutId]) :
          /\ FindQuestionById(q) # NoQuestion
          /\ HasNothingOf(q)
    /\ \E q \in SubQuestionSet : answers[q] # NoAnswer

\* C35: advance() from the fan-out question, retreat(), advance() again with
\* the answers untouched gives the current question id, pending-route queue,
\* answers and checklist of the first advance.
C35_ReResolveIdempotent ==
    [][(AdvanceStep /\ currentQuestionId = FanOutId /\ CurrentQuestion # NoQuestion
           /\ screen' = "question") =>
         LET back == PreviousQuestionResult(questionHistory')
             again == GetNextQuestionId(FindQuestionById(back.currentQuestionId),
                                        answers', checklist', back.pendingRoutes)
         IN /\ again.nextId = currentQuestionId'
            /\ again.pendingRoutes = pendingRoutes'
            /\ again.answers = answers'
            /\ again.checklist = checklist']_vars

\* ---- version 1.0 of the navigator (the second class of the source) ----

\* question.routing, the object itself, returned where a route was expected
RoutingObject == "[object Object]"

\* getNextQuestionId(question) of version 1.0
GetNextQuestionIdV1(question, a) ==
    IF question.routing.kind = "absent" THEN "summary"
    ELSE IF question.routing.kind = "string" THEN question.routing.next
    ELSE LET answer == a[question.id]
         IN IF answer.kind = "array"
            THEN LET r == RouteOf(question, IF answer.v = <<>> THEN Undefined ELSE answer.v[1])
                 IN IF r = Undefined THEN RoutingObject ELSE r
            ELSE IF answer.kind = "string" THEN RouteOrSummary(question, answer.v)
            ELSE "summary"

\* the frame version 1.0 pushes: no queue snapshot
HistoryFrameV1(cur, a) == [questionId |-> cur, answer |-> a[cur]]

\* nextQuestion() of version 1.0, on the state (cur, a, h)
NextQuestionV1(cur, a, h) ==
    LET question == FindQuestionById(cur)
        pushed == Append(h, HistoryFrameV1(cur, a))
        nextId == GetNextQuestionIdV1(question, a)
    IN IF question = NoQuestion
       THEN [currentQuestionId |-> cur, screen |-> "question", questionHistory |-> pushed]
       ELSE IF IsTerminalId(nextId)
       THEN [currentQuestionId |-> cur, screen |-> "summary", questionHistory |-> pushed]
       ELSE IF IsQuestion(nextId)
       THEN [currentQuestionId |-> nextId, screen |-> "question", questionHistory |-> pushed]
       ELSE [currentQuestionId |-> cur, screen |-> "summary", questionHistory |-> pushed]

\* previousQuestion() of version 1.0
PreviousQuestionV1(cur, h) ==
    IF h = <<>>
    THEN [currentQuestionId |-> cur, questionHistory |-> h]
    ELSE [currentQuestionId |-> h[Len(h)].questionId,
          questionHistory |-> SubSeq(h, 1, Len(h) - 1)]

\* the history of version 2.0 as version 1.0 holds it
FramesV1(h) == [i \in DOMAIN h |-> [questionId |-> h[i].questionId, answer |-> h[i].answer]]

\* the identifiers the code of version 2.0 treats specially
HardCodedIds == {FanOutId, "q9_oncore"} \cup Range(allSubQuestionIds)

\* the tree has none of them
PlainTree ==
    /\ TreeLoaded
    /\ \A i \in DOMAIN Questions : Questions[i].id \notin HardCodedIds

\* C36: in a tree with none of the hard-coded identifiers, every answer,
\* advance and retreat of version 2.0 takes the state where the same operation
\* of version 1.0 takes it: the same current question id, the same
\* terminal-or-not outcome, the same answers and checklist (and the same
\* frames, the queue of version 2.0 staying empty).
C36_VersionsAgree ==
    /\ [](PlainTree => pendingRoutes = <<>>)
    /\ [][(PlainTree /\ AdvanceStep) =>
            LET r == NextQuestionV1(currentQuestionId, answers, FramesV1(questionHistory))
            IN /\ currentQuestionId' = r.currentQuestionId
               /\ screen' = r.screen
               /\ FramesV1(questionHistory') = r.questionHistory
               /\ UNCHANGED <<answers, checklist>>]_vars
    /\ [][(PlainTree /\ RetreatStep) =>
            LET r == PreviousQuestionV1(currentQuestionId, FramesV1(questionHistory))
            IN /\ currentQuestionId' = r.currentQuestionId
               /\ FramesV1(questionHistory') = r.questionHistory
               /\ UNCHANGED <<answers, checklist, screen>>]_vars
    /\ [][(PlainTree /\ AnswerStep) =>
            LET sel == IF lastOp'.op = "selectOption"
                       THEN Single(lastOp'.opt)
                       ELSE Multi(SelectedAfter(answers[currentQuestionId], lastOp'.opt,
                                                lastOp'.checked))
            IN /\ answers' = [answers EXCEPT ![currentQuestionId] = sel]
               /\ checklist' = AddToChecklist(checklist, CurrentQuestion, sel)
               /\ UNCHANGED <<currentQuestionId, questionHistory, screen>>]_vars

\* an advance from a checkbox question whose first selected option has no
\* routing entry while a later one has: both versions show the summary
C36_Witness ==
    /\ PlainTree
    /\ lastOp.op = "nextQuestion"
    /\ screen = "summary"
    /\ LastFrame.answer.kind = "array"
    /\ Len(LastFrame.answer.v) >= 2
    /\ RouteOf(FindQuestionById(LastFrame.questionId), LastFrame.answer.v[1]) = Undefined
    /\ RouteOf(FindQuestionById(LastFrame.questionId), LastFrame.answer.v[2]) # Undefined
    /\ checklist # <<>>

----------------------------------------------------------------------------

Labels == UNION {UNION {Range(Trees[t][i].options) : i \in DOMAIN Trees[t]} : t \in DOMAIN Trees}

Next ==
    \/ LoadDecisionTree
    \/ StartNewAssessment
    \/ \E option \in Labels : SelectOption(option)
    \/ \E option \in Labels, checked \in BOOLEAN : SelectCheckboxOption(option, checked)
    \/ NextQuestion
    \/ PreviousQuestion
    \/ Finish
    \/ Restart

\* the assessment engine: one visit of the page
Spec == Init /\ [][Next]_vars

\* the documents served in the visits that save and load
PersistTrees == {3, 7, 9, 10}

PersistInit == Init /\ treeFile \in PersistTrees

PersistNext ==
    \/ Next
    \/ StoredItemDamaged
    \/ LoadProgress
    \/ SaveProgress
    \/ Reload

\* a handler runs while a question is displayed and the history bound leaves
\* the Next button usable
UserActs ==
    /\ screen = "question"
    /\ Len(questionHistory) < MaxHistory
    /\ (Restart \/ Next)

\* the engine with a user who does not leave a displayed question for ever:
\* weak fairness of UserActs is implied by weak fairness of NextQuestion
LiveSpec == Init /\ [][Next]_vars /\ WF_vars(UserActs)

\* the engine with the saved item and later visits of the page
PersistSpec == PersistInit /\ [][PersistNext]_vars
====
